---- MODULE Spec2Model ----
(***************************************************************************)
(* A model of the UI core of Coffee: the widgets Row, Checkbox and Button, *)
(* and the four passes of the Widget trait (node, on_event, draw, hash).   *)
(* The widget under test is `root`; the caller builds it with the builder  *)
(* methods and then runs passes over it with inputs of its choice.         *)
(***************************************************************************)
EXTENDS Integers, Sequences, FiniteSets, TLC

VARIABLES
    root,       \* the widget tree the caller has built
    pushed,     \* history: the children handed to Row::push, in call order
    call,       \* the last pass that ran, with the inputs it was given
    messages,   \* the caller's Vec<Message>, passed to on_event
    node,       \* what the last node() returned
    cursor,     \* what the last draw() returned
    drawn,      \* the renderer calls of the last draw(), in call order
    panicked,   \* whether the last pass unwound with a panic
    hasher,     \* the bytes the last hash() wrote to the Hasher
    last_hasher,\* the bytes the hash() before it wrote (last frame's digest input)
    delta,      \* history: the constructor arguments changed between those two
    pending,    \* history: the constructor arguments changed since the last hash()
    armed,      \* history: a left press inside the Button's bounds awaits its release
    clicks,     \* history: the clicks completed on the Button since the
                \* caller last took the messages
    resolved,   \* the Layout the last compute_layout() returned
    tasks,      \* the Tasks the caller has created and not yet composed or run
    worker,     \* the Worker of Task::run: its Progress and what it has to do
    notified,   \* the Progress values the listener was called with, in order
    executed,   \* history: the user functions called, in order
    transformation, \* the Transformation the caller has composed
    operations, \* history: the constructors it is the product of, in order
    inverse,    \* the outcome of the last inverse_transform_point/_vector
    targets,    \* the Targets alive: each borrows the Gpu from the one before
    gpu,        \* the draws the Gpu has received, in order
    sprites,    \* the sprite batch of the UI Renderer
    radio       \* the last draw of a radio button: its arguments and result

uiVars == <<root, pushed, call, messages, node, cursor, drawn, panicked,
            hasher, last_hasher, delta, pending, armed, clicks>>

layoutVars == <<resolved>>

\* What the passes of the widgets leave alone.
loadVars == <<tasks, worker, notified, executed>>

gfxVars == <<transformation, operations, inverse, targets, gpu>>

rendererVars == <<sprites, radio>>

otherVars == <<layoutVars, rendererVars, loadVars, gfxVars>>

vars == <<uiVars, otherVars>>

(***************************************************************************)
(* Bounds of the model.                                                    *)
(***************************************************************************)
MaxChildren == 2
MaxPending == 1
MaxClicks == 2
MaxChanges == 2
MaxButtons == 3
MaxFunctions == 3
MaxStages == 2
MaxFactors == 2
MaxTargets == 2
MaxDraws == 2
MaxSprites == 4

(***************************************************************************)
(* Values.                                                                 *)
(***************************************************************************)
MouseCursor == {"Default", "Pointer", "Working", "Grab", "Grabbing"}

\* The cursors the renderer under test answers with.
RendererCursors == {"Default", "Pointer", "Grab"}

Undefined == [tag |-> "Undefined", value |-> 0]

Points(v) == [tag |-> "Points", value |-> v]

Style_default ==
    [width |-> Undefined, height |-> Undefined, grow |-> 0,
     align_items |-> "Stretch", margin_end |-> Undefined,
     flex_direction |-> "Row"]

Style_width(style, w) == [style EXCEPT !.width = Points(w)]

Style_height(style, h) == [style EXCEPT !.height = Points(h)]

Style_grow(style) == [style EXCEPT !.grow = 1]

Style_align_items(style, align) == [style EXCEPT !.align_items = align]

Style_column(style) == [style EXCEPT !.flex_direction = "Column"]

NoMeasure == [some |-> FALSE, content |-> <<>>]

Node_new(style, children) ==
    [style |-> style, children |-> children, measure |-> NoMeasure]

\* Labels are UTF-8 strings, kept as their bytes.
LabelEmpty == <<>>
LabelA == <<97>>
LabelAB == <<97, 98>>
LabelB == <<98>>
Labels == {LabelEmpty, LabelA, LabelAB, LabelB}

White == "WHITE"
Black == "BLACK"
Colors == {White, Black}

\* Messages: on_toggle is a function of the new state, on_click a value.
OnToggle(tag, b) == [tag |-> tag, value |-> b]
Clicked == [tag |-> 0, value |-> TRUE]
NoneMsg == [some |-> FALSE, msg |-> Clicked]
SomeMsg(m) == [some |-> TRUE, msg |-> m]

(***************************************************************************)
(* Constructors and builder methods.                                       *)
(***************************************************************************)
Row_new ==
    [kind |-> "Row", style |-> Style_default, spacing |-> 0, children |-> <<>>]

Row_spacing(row, px) == [row EXCEPT !.spacing = px]

Row_width(row, w) == [row EXCEPT !.style = Style_width(row.style, w)]

Row_align_items(row, align) ==
    [row EXCEPT !.style = Style_align_items(row.style, align)]

Row_push_front(row, child) ==
    [row EXCEPT !.children = <<child>> \o row.children]

Row_push(row, child) == [row EXCEPT !.children = Append(row.children, child)]

Column_new ==
    [kind |-> "Column", style |-> Style_column(Style_default), spacing |-> 0,
     children |-> <<>>]

Column_width(col, w) == [col EXCEPT !.style = Style_width(col.style, w)]

Column_height(col, h) == [col EXCEPT !.style = Style_height(col.style, h)]

Column_spacing(col, px) == [col EXCEPT !.spacing = px]

Column_push(col, child) == [col EXCEPT !.children = Append(col.children, child)]

Text_new(label) == [kind |-> "Text", content |-> label]

Checkbox_new(is_checked, label, f) ==
    [kind |-> "Checkbox", is_checked |-> is_checked, on_toggle |-> f,
     label |-> label, label_color |-> White]

Checkbox_label_color(checkbox, color) ==
    [checkbox EXCEPT !.label_color = color]

Button_new(label) ==
    [kind |-> "Button", label |-> label, style |-> Style_default,
     on_click |-> NoneMsg]

Button_width(button, w) ==
    [button EXCEPT !.style = Style_width(button.style, w)]

Button_on_click(button, msg) == [button EXCEPT !.on_click = SomeMsg(msg)]

(***************************************************************************)
(* Geometry, events and layouts.                                           *)
(***************************************************************************)
Point_new(x, y) == [x |-> x, y |-> y]

Rectangle(x, y, width, height) ==
    [x |-> x, y |-> y, width |-> width, height |-> height]

contains(bounds, point) ==
    /\ bounds.x <= point.x
    /\ point.x <= bounds.x + bounds.width
    /\ bounds.y <= point.y
    /\ point.y <= bounds.y + bounds.height

MouseInput(button, state) ==
    [type |-> "MouseInput", button |-> button, state |-> state]

LeftPressed == MouseInput("Left", "Pressed")
LeftReleased == MouseInput("Left", "Released")
RightPressed == MouseInput("Right", "Pressed")
CursorMoved == [type |-> "CursorMoved", button |-> "None", state |-> "None"]
NoEvent == [type |-> "None", button |-> "None", state |-> "None"]

Events == {LeftPressed, LeftReleased, RightPressed, CursorMoved}

\* A resolved Layout: the bounds of a node and the layouts of its children.
Layout_new(bounds, children) == [bounds |-> bounds, children |-> children]

Min(a, b) == IF a <= b THEN a ELSE b

(***************************************************************************)
(* Widget::node                                                            *)
(***************************************************************************)
SetMarginEnd(n, dimension) == [n EXCEPT !.style.margin_end = dimension]

RECURSIVE WidgetNode(_)

Row_node_keep_last_margin(row) ==
    Node_new(row.style,
             [i \in 1..Len(row.children) |->
                 SetMarginEnd(WidgetNode(row.children[i]),
                              Points(row.spacing))])

Row_node_drop_last_child(row) ==
    LET n == Len(row.children)
        children == [i \in 1..n |->
                        SetMarginEnd(WidgetNode(row.children[i]),
                                     Points(row.spacing))]
    IN  Node_new(row.style, IF n > 0 THEN SubSeq(children, 1, n - 1)
                                     ELSE children)

Row_node(row) ==
    LET n == Len(row.children)
        children == [i \in 1..n |->
                        SetMarginEnd(WidgetNode(row.children[i]),
                                     Points(row.spacing))]
        last_mut == IF n > 0
                    THEN [children EXCEPT ![n] = SetMarginEnd(@, Undefined)]
                    ELSE children
    IN  Node_new(row.style, last_mut)

Column_node(column) == Row_node(column)

Text_node(text) ==
    [style |-> Style_default, children |-> <<>>,
     measure |-> [some |-> TRUE, content |-> text.content]]

Checkbox_node(checkbox) ==
    Row_node(
        Row_push(
            Row_push(Row_align_items(Row_spacing(Row_new, 15), "Center"),
                     Column_height(Column_width(Column_new, 28), 28)),
            Text_new(checkbox.label)))

\* A Button that leaves its height to its content.
Button_node_auto_height(button) == Node_new(Style_grow(button.style), <<>>)

Button_node(button) ==
    Node_new(Style_grow(Style_height(button.style, 50)), <<>>)

WidgetNode(w) ==
    CASE w.kind = "Row" -> Row_node(w)
      [] w.kind = "Column" -> Column_node(w)
      [] w.kind = "Text" -> Text_node(w)
      [] w.kind = "Checkbox" -> Checkbox_node(w)
      [] w.kind = "Button" -> Button_node(w)

(***************************************************************************)
(* Widget::on_event                                                        *)
(***************************************************************************)
\* The trait's default: the event is ignored.
Widget_on_event(w, event, layout, cursor_position, msgs) == msgs

\* A handler that puts its message in front of the others.
Checkbox_on_event_prepend(checkbox, event, layout, cursor_position, msgs) ==
    IF event = LeftPressed
    THEN LET mouse_over ==
                 \E i \in 1..Len(layout.children) :
                     contains(layout.children[i].bounds, cursor_position)
         IN  IF mouse_over
             THEN <<OnToggle(checkbox.on_toggle, ~checkbox.is_checked)>>
                      \o msgs
             ELSE msgs
    ELSE msgs

Checkbox_on_event_all(checkbox, event, layout, cursor_position, msgs) ==
    IF event = LeftPressed
    THEN LET mouse_over ==
                 \A i \in 1..Len(layout.children) :
                     contains(layout.children[i].bounds, cursor_position)
         IN  IF mouse_over
             THEN Append(msgs, OnToggle(checkbox.on_toggle,
                                        ~checkbox.is_checked))
             ELSE msgs
    ELSE msgs

Checkbox_on_event(checkbox, event, layout, cursor_position, msgs) ==
    IF event = LeftPressed
    THEN LET mouse_over ==
                 \E i \in 1..Len(layout.children) :
                     contains(layout.children[i].bounds, cursor_position)
         IN  IF mouse_over
             THEN Append(msgs, OnToggle(checkbox.on_toggle,
                                        ~checkbox.is_checked))
             ELSE msgs
    ELSE msgs

RECURSIVE WidgetOnEvent(_, _, _, _, _)
RECURSIVE Row_on_event_from(_, _, _, _, _, _)

\* children.iter_mut().zip(layout.children()).for_each(...), from the i-th pair on
Row_on_event_from(row, event, layout, cursor_position, msgs, i) ==
    IF i > Min(Len(row.children), Len(layout.children))
    THEN msgs
    ELSE Row_on_event_from(
             row, event, layout, cursor_position,
             WidgetOnEvent(row.children[i], event, layout.children[i],
                           cursor_position, msgs),
             i + 1)

Row_on_event(row, event, layout, cursor_position, msgs) ==
    Row_on_event_from(row, event, layout, cursor_position, msgs, 1)

WidgetOnEvent(w, event, layout, cursor_position, msgs) ==
    CASE w.kind = "Row" ->
             Row_on_event(w, event, layout, cursor_position, msgs)
      [] w.kind = "Checkbox" ->
             Checkbox_on_event(w, event, layout, cursor_position, msgs)
      [] OTHER -> Widget_on_event(w, event, layout, cursor_position, msgs)

(***************************************************************************)
(* Widget::draw.  The renderer is the caller's: the cursor its k-th        *)
(* checkbox draw returns is responses[k].  A draw carries an accumulator:  *)
(* the renderer calls made so far, the cursor returned, and whether the    *)
(* pass has panicked.                                                      *)
(***************************************************************************)
DrawStart == [drawn |-> <<>>, cursor |-> "Default", panicked |-> FALSE]

TextCall(content, color, bounds) ==
    [renderer |-> "text", content |-> content, size |-> 20, color |-> color,
     bounds |-> bounds, label_bounds |-> bounds, is_checked |-> FALSE,
     cursor_position |-> Point_new(0, 0)]

CheckboxCall(cursor_position, bounds, label_bounds, is_checked) ==
    [renderer |-> "checkbox", content |-> <<>>, size |-> 0, color |-> White,
     bounds |-> bounds, label_bounds |-> label_bounds,
     is_checked |-> is_checked, cursor_position |-> cursor_position]

CheckboxCalls(calls) ==
    Cardinality({k \in 1..Len(calls) : calls[k].renderer = "checkbox"})

Checkbox_draw(checkbox, layout, cursor_position, responses, acc) ==
    IF Len(layout.children) < 2
    THEN \* children[1]: index out of bounds
         [acc EXCEPT !.panicked = TRUE]
    ELSE LET text_bounds == layout.children[2].bounds
             text == TextCall(checkbox.label, checkbox.label_color,
                              text_bounds)
             box == CheckboxCall(cursor_position, layout.children[1].bounds,
                                 text_bounds,
                                 checkbox.is_checked)
         IN  [drawn |-> acc.drawn \o <<text, box>>,
              cursor |-> responses[CheckboxCalls(acc.drawn) + 1],
              panicked |-> FALSE]

RECURSIVE WidgetDraw(_, _, _, _, _)
RECURSIVE Row_draw_from(_, _, _, _, _, _)
RECURSIVE Row_draw_from_overwrite(_, _, _, _, _, _)

\* A fold that lets every child's cursor replace the one kept so far.
Row_draw_from_overwrite(row, layout, cursor_position, responses, acc, i) ==
    IF acc.panicked \/ i > Min(Len(row.children), Len(layout.children))
    THEN acc
    ELSE LET child == WidgetDraw(row.children[i], layout.children[i],
                                 cursor_position, responses, acc)
         IN  Row_draw_from_overwrite(row, layout, cursor_position,
                                     responses, child, i + 1)

\* children.iter().zip(layout.children()).for_each(...), from the i-th pair
\* on; acc.cursor is the local `cursor`.
Row_draw_from(row, layout, cursor_position, responses, acc, i) ==
    IF acc.panicked \/ i > Min(Len(row.children), Len(layout.children))
    THEN acc
    ELSE LET child == WidgetDraw(row.children[i], layout.children[i],
                                 cursor_position, responses, acc)
             new_cursor == child.cursor
         IN  Row_draw_from(
                 row, layout, cursor_position, responses,
                 [child EXCEPT !.cursor = IF new_cursor /= "Default"
                                          THEN new_cursor
                                          ELSE acc.cursor],
                 i + 1)

\* A draw that starts from the pointer cursor.
Row_draw_pointer_start(row, layout, cursor_position, responses, acc) ==
    Row_draw_from(row, layout, cursor_position, responses,
                  [acc EXCEPT !.cursor = "Pointer"], 1)

Row_draw(row, layout, cursor_position, responses, acc) ==
    Row_draw_from(row, layout, cursor_position, responses,
                  [acc EXCEPT !.cursor = "Default"], 1)

WidgetDraw(w, layout, cursor_position, responses, acc) ==
    CASE w.kind = "Row" ->
             Row_draw(w, layout, cursor_position, responses, acc)
      [] w.kind = "Checkbox" ->
             Checkbox_draw(w, layout, cursor_position, responses, acc)

(***************************************************************************)
(* Widget::hash.  The Hasher's state is the bytes written to it.           *)
(***************************************************************************)
\* impl Hash for u16: write_u16, the two bytes of the value
Hash_u16(v, state) == state \o <<v % 256, v \div 256>>

\* impl Hash for str: the bytes, then 0xff
Hash_str(str, state) == state \o str \o <<255>>

DimensionCode(d) == IF d.tag = "Undefined" THEN 0 ELSE d.value + 1

AlignCode(a) == IF a = "Center" THEN 2 ELSE IF a = "Stretch" THEN 4 ELSE 0

Style_hash(style, state) ==
    state \o <<DimensionCode(style.width), DimensionCode(style.height),
               style.grow, AlignCode(style.align_items),
               DimensionCode(style.margin_end)>>

Checkbox_hash_with_state(checkbox, state) ==
    Hash_str(checkbox.label, state) \o
        <<IF checkbox.is_checked THEN 1 ELSE 0>>

Checkbox_hash_nothing(checkbox, state) == state

Checkbox_hash(checkbox, state) == Hash_str(checkbox.label, state)

RECURSIVE WidgetHash(_, _)
RECURSIVE Row_hash_children(_, _, _)

\* for child in &self.children { child.widget.hash(state) }, from the i-th on
Row_hash_children(row, state, i) ==
    IF i > Len(row.children)
    THEN state
    ELSE Row_hash_children(row, WidgetHash(row.children[i], state), i + 1)

Row_hash(row, state) ==
    Row_hash_children(
        row, Hash_u16(row.spacing, Style_hash(row.style, state)), 1)

WidgetHash(w, state) ==
    CASE w.kind = "Row" -> Row_hash(w, state)
      [] w.kind = "Checkbox" -> Checkbox_hash(w, state)

(***************************************************************************)
(* The inputs the caller chooses from.                                     *)
(***************************************************************************)
Spacings == {0, 15, 255, 256}

Widths == {200, 300}

CheckboxA == Checkbox_new(TRUE, LabelA, 1)
CheckboxB == Checkbox_new(FALSE, LabelB, 2)
Inner == Row_push(Row_spacing(Row_new, 15), Checkbox_new(FALSE, LabelAB, 3))

\* The children handed to Row::push.
Elements == {CheckboxA, CheckboxB, Inner}

\* Two rectangles and two cursor positions: each position lies inside
\* exactly one of the rectangles.
RectNear == Rectangle(0, 0, 2, 2)
RectFar == Rectangle(5, 5, 2, 2)
Rects == {RectNear, RectFar}

CursorPositions == {Point_new(1, 1), Point_new(6, 6)}

Leaf(bounds) == Layout_new(bounds, <<>>)

\* Every layout of up to three childless children.
CheckboxLayouts ==
    UNION {{Layout_new(RectNear, [i \in 1..k |-> Leaf(rs[i])]) :
               rs \in [1..k -> Rects]} : k \in 0..3}

\* The layout of widget w whose leaves all have bounds r, a Checkbox
\* getting k children and a Row one child per child widget.
RECURSIVE UniformLayout(_, _, _)
UniformLayout(w, r, k) ==
    IF w.kind = "Row"
    THEN Layout_new(r, [i \in 1..Len(w.children) |->
                           UniformLayout(w.children[i], r, k)])
    ELSE Layout_new(r, [i \in 1..k |-> Leaf(r)])

\* Layouts of m children for a Row, m not always its number of children.
RowLayouts(row) ==
    UNION {{Layout_new(RectNear,
                       [i \in 1..m |->
                           IF i <= Len(row.children)
                           THEN UniformLayout(row.children[i], rs[i], k)
                           ELSE Leaf(rs[i])]) :
               rs \in [1..m -> Rects], k \in 1..2} : m \in 0..MaxChildren}

Layouts(w) ==
    CASE w.kind = "Row" -> RowLayouts(w)
      [] w.kind = "Checkbox" -> CheckboxLayouts
      [] OTHER -> {Leaf(r) : r \in Rects}

RECURSIVE SumLeaves(_, _)
RECURSIVE NumLeaves(_)
SumLeaves(children, i) ==
    IF i > Len(children) THEN 0
    ELSE NumLeaves(children[i]) + SumLeaves(children, i + 1)

\* The Checkboxes of a tree: the most checkbox draws one pass can make.
NumLeaves(w) == IF w.kind = "Row" THEN SumLeaves(w.children, 1) ELSE 1

(***************************************************************************)
(* The layout solver: a Node and the space available give a Layout.  A     *)
(* flexbox of one line: the children follow each other along the main      *)
(* axis, each after the trailing margin of the one before; a child takes   *)
(* the size its style asks for, else the size of its content; what is left *)
(* of a definite main size goes to the children that grow; across the main *)
(* axis a child without a size of its own is stretched.  Sizes are whole   *)
(* numbers of pixels.                                                      *)
(***************************************************************************)
Dimension_or_else(dimension, default) ==
    IF dimension.tag = "Points" THEN dimension.value ELSE default

Size_of(style, axis) == IF axis = "Row" THEN style.width ELSE style.height

Max(a, b) == IF a >= b THEN a ELSE b

RECURSIVE Sum(_, _)
Sum(f, n) == IF n = 0 THEN 0 ELSE f[n] + Sum(f, n - 1)

RECURSIVE Largest(_, _)
Largest(f, n) == IF n = 0 THEN 0 ELSE Max(f[n], Largest(f, n - 1))

\* The size of a node along an axis before any space is shared out.
RECURSIVE BaseSize(_, _)
ContentSize(n, axis) ==
    LET count == Len(n.children)
    IN  IF n.style.flex_direction = axis
        THEN Sum([i \in 1..count |->
                     BaseSize(n.children[i], axis)
                     + Dimension_or_else(n.children[i].style.margin_end, 0)],
                 count)
        ELSE Largest([i \in 1..count |-> BaseSize(n.children[i], axis)],
                     count)

BaseSize(n, axis) ==
    Dimension_or_else(Size_of(n.style, axis), ContentSize(n, axis))

\* The layout of a node that was given the box (x, y, width, height).
RECURSIVE Solve(_, _, _, _, _)
Solve(n, x, y, width, height) ==
    LET count == Len(n.children)
        main == n.style.flex_direction
        cross == IF main = "Row" THEN "Column" ELSE "Row"
        main_size == IF main = "Row" THEN width ELSE height
        cross_size == IF main = "Row" THEN height ELSE width
        margin == [i \in 1..count |->
                      Dimension_or_else(n.children[i].style.margin_end, 0)]
        base == [i \in 1..count |-> BaseSize(n.children[i], main)]
        free == main_size - Sum(base, count) - Sum(margin, count)
        factors == Sum([i \in 1..count |-> n.children[i].style.grow], count)
        used == [i \in 1..count |->
                    IF free > 0 /\ factors > 0
                    THEN base[i]
                         + (free * n.children[i].style.grow) \div factors
                    ELSE base[i]]
        across == [i \in 1..count |->
                      IF n.style.align_items = "Stretch"
                      THEN Dimension_or_else(
                               Size_of(n.children[i].style, cross),
                               cross_size)
                      ELSE BaseSize(n.children[i], cross)]
        start == [i \in 1..count |->
                     Sum(used, i - 1) + Sum(margin, i - 1)]
        offset == [i \in 1..count |->
                      IF n.style.align_items = "Center"
                      THEN (cross_size - across[i]) \div 2
                      ELSE 0]
    IN  Layout_new(
            Rectangle(x, y, width, height),
            [i \in 1..count |->
                IF main = "Row"
                THEN Solve(n.children[i], x + start[i], y + offset[i],
                           used[i], across[i])
                ELSE Solve(n.children[i], x + offset[i], y + start[i],
                           across[i], used[i])])

\* Node::compute_layout: the root fills the width it is offered unless its
\* style has a width, and is as high as its style says, else as its content.
Node_compute_layout(n, available) ==
    Solve(n, 0, 0,
          Dimension_or_else(n.style.width, available.width),
          Dimension_or_else(n.style.height, ContentSize(n, "Column")))

NoLayout == Layout_new(Rectangle(0, 0, 0, 0), <<>>)

(***************************************************************************)
(* load: Task, Worker, Progress.  The function of a Task is a closure over *)
(* the functions and Tasks it was made from; it is kept as the tree of     *)
(* these.                                                                  *)
(***************************************************************************)
\* total_work and work_completed are u32.  The model counts in words of 16
\* bits, which overflow as words of 32 bits do.
Modulus == 65536

\* A closure: a user function f, the work it notifies, the title of a
\* stage, the closures it calls.
Closure(kind, f, works, title, inner) ==
    [kind |-> kind, f |-> f, works |-> works, title |-> title,
     inner |-> inner]

NoClosure == Closure("none", 0, <<>>, "", <<>>)

\* Task::new(f): the Worker is ignored.
Task_new(f) ==
    [total_work |-> 1, function |-> Closure("new", f, <<>>, "", <<>>)]

\* Task::sequence(total_work, f): f is given the Worker.
Task_sequence(total_work, function) ==
    [total_work |-> total_work, function |-> function]

\* A closure of the crate that calls the user function f and then notifies
\* the amounts `works`.
Loader(f, works) == Closure("sequence", f, works, "", <<>>)

\* A using_gpu that notifies two units of work for the one it declares.
Task_using_gpu_two_units(f) ==
    Task_sequence(1, Closure("using_gpu", f, <<2>>, "", <<>>))

\* Task::using_gpu(f): f(worker.gpu()), then notify_progress(1).
Task_using_gpu(f) == Task_sequence(1, Closure("using_gpu", f, <<1>>, "", <<>>))

Task_stage(title, task) ==
    [total_work |-> task.total_work,
     function |-> Closure("stage", 0, <<>>, title, <<task.function>>)]

Task_total_work(task) == task.total_work

Task_map(task, f) ==
    [total_work |-> task.total_work,
     function |-> Closure("map", f, <<>>, "", <<task.function>>)]

\* A join whose total is the total of its first Task.
Join_pair_first_total(loader_a, loader_b) ==
    Task_sequence(
        Task_total_work(loader_a),
        Closure("join", 0, <<>>, "",
                <<loader_a.function, loader_b.function>>))

\* A join that calls its first Task twice.
Join_pair_twice(loader_a, loader_b) ==
    Task_sequence(
        (Task_total_work(loader_a) + Task_total_work(loader_b)) % Modulus,
        Closure("join", 0, <<>>, "",
                <<loader_a.function, loader_a.function,
                  loader_b.function>>))

\* (Task<A>, Task<B>)::join
Join_pair(loader_a, loader_b) ==
    Task_sequence(
        (Task_total_work(loader_a) + Task_total_work(loader_b)) % Modulus,
        Closure("join", 0, <<>>, "",
                <<loader_a.function, loader_b.function>>))

\* The closure |((a, b), c)| (a, b, c) of the join of three.
Flatten == 0

\* (Task<A>, Task<B>, Task<C>)::join
Join_triple(loader_a, loader_b, loader_c) ==
    Task_map(Join_pair(Join_pair(loader_a, loader_b), loader_c), Flatten)

Progress_new(total_work) ==
    [total_work |-> total_work, work_completed |-> 0, stages |-> <<>>]

Progress_total_work(progress) == progress.total_work

\* The work completed as it was counted, over the total or not.
Progress_completed_work_uncapped(progress) == progress.work_completed

Progress_completed_work(progress) ==
    Min(progress.work_completed, progress.total_work)

NoStage == [some |-> FALSE, title |-> ""]

SomeStage(title) == [some |-> TRUE, title |-> title]

Progress_stage(progress) ==
    IF progress.stages = <<>> THEN NoStage
    ELSE SomeStage(progress.stages[Len(progress.stages)])

\* What the Worker has still to do, first things first: call a closure,
\* notify work after a user function, pop the stage pushed by with_stage,
\* apply the function of a map, make the tuple of a join.  `under` is
\* history: the titles of the stages the step was composed under,
\* outermost first.
Frame(op, function, f, work, under) ==
    [op |-> op, function |-> function, f |-> f, work |-> work,
     under |-> under]

Call(function, under) == Frame("call", function, 0, 0, under)

\* `f` is history here: the user function whose closure notifies.
Notify(f, work, under) == Frame("notify", NoClosure, f, work, under)

Pop(under) == Frame("pop", NoClosure, 0, 0, under)

Apply(f, under) == Frame("apply", NoClosure, f, 0, under)

Tuple(under) == Frame("tuple", NoClosure, 0, 0, under)

\* A value a closure returns: what the user function f made, out of the
\* values it was given; f is 0 for a tuple, which nobody's function made.
Output(f, parts) == [f |-> f, parts |-> parts]

\* The tuple of a join whose second operand comes first.
Join_tuple_swapped(values) ==
    LET n == Len(values)
    IN  Append(SubSeq(values, 1, n - 2),
               Output(0, <<values[n], values[n - 1]>>))

\* The closure of a join, once its two calls have returned: the tuple
\* ((loader_a.function)(task), (loader_b.function)(task)) of the two
\* values returned last, in the order they were returned.
Join_tuple(values) ==
    LET n == Len(values)
    IN  Append(SubSeq(values, 1, n - 2),
               Output(0, <<values[n - 1], values[n]>>))

\* The closure of a map, once the Task's function has returned: f(value),
\* where f is the function of the caller or |((a, b), c)| (a, b, c).
Map_apply(values, f) ==
    LET n == Len(values)
        value == values[n]
    IN  Append(SubSeq(values, 1, n - 1),
               IF f = Flatten
               THEN Output(0, <<value.parts[1].parts[1],
                                value.parts[1].parts[2], value.parts[2]>>)
               ELSE Output(f, <<value>>))

NoTask == [total_work |-> 0, function |-> NoClosure]

\* `values` are the values the calls that have returned have left.
NoWorker ==
    [phase |-> "idle", task |-> NoTask, progress |-> Progress_new(0),
     todo |-> <<>>, values |-> <<>>]

\* Worker::notify_progress, up to the call of the listener: the addition
\* overflows a u32 with a panic where overflow is checked and wraps around
\* where it is not.
Worker_notify_progress(progress, work, overflow_checks) ==
    LET sum == progress.work_completed + work
    IN  [panicked |-> overflow_checks /\ sum >= Modulus,
         progress |-> [progress EXCEPT !.work_completed = sum % Modulus]]

\* A with_stage that leaves its title on the stack.
Worker_with_stage_no_pop(w, title, f, under) ==
    [w EXCEPT !.progress.stages = Append(@, title),
              !.todo = <<Call(f, Append(under, title))>> \o Tail(@)]

\* Worker::with_stage, but for its notify_progress(0): the title is pushed,
\* f is called and the title popped.
Worker_with_stage(w, title, f, under) ==
    [w EXCEPT !.progress.stages = Append(@, title),
              !.todo = <<Call(f, Append(under, title)),
                         Pop(Append(under, title))>> \o Tail(@)]

(***************************************************************************)
(* graphics: Transformation, a 4x4 matrix, kept as its four rows, and      *)
(* Target.  The entries are whole numbers: angles are quarter turns and    *)
(* the sizes of a projection divide 2.                                     *)
(***************************************************************************)
Matrix4(f(_, _)) == [i \in 1..4 |-> [j \in 1..4 |-> f(i, j)]]

Vector_new(x, y) == [x |-> x, y |-> y]

Transformation_identity ==
    LET e(i, j) == IF i = j THEN 1 ELSE 0 IN Matrix4(e)

\* Matrix4::new_orthographic(0, width, 0, height, -1, 1)
Transformation_orthographic(width, height) ==
    <<<<2 \div width, 0, 0, -1>>,
      <<0, 2 \div height, 0, -1>>,
      <<0, 0, -1, 0>>,
      <<0, 0, 0, 1>>>>

Transformation_translate(translation) ==
    <<<<1, 0, 0, translation.x>>,
      <<0, 1, 0, translation.y>>,
      <<0, 0, 1, 0>>,
      <<0, 0, 0, 1>>>>

Transformation_scale(scale) ==
    <<<<scale, 0, 0, 0>>,
      <<0, scale, 0, 0>>,
      <<0, 0, scale, 0>>,
      <<0, 0, 0, 1>>>>

Transformation_nonuniform_scale(scale) ==
    <<<<scale.x, 0, 0, 0>>,
      <<0, scale.y, 0, 0>>,
      <<0, 0, 1, 0>>,
      <<0, 0, 0, 1>>>>

\* The cosine and the sine of a number of quarter turns.
Cos(quarters) == <<1, 0, -1, 0>>[(quarters % 4) + 1]

Sin(quarters) == <<0, 1, 0, -1>>[(quarters % 4) + 1]

\* Matrix4::new_rotation(Vector3::new(0.0, 0.0, rotation))
Transformation_rotate(rotation) ==
    <<<<Cos(rotation), -Sin(rotation), 0, 0>>,
      <<Sin(rotation), Cos(rotation), 0, 0>>,
      <<0, 0, 1, 0>>,
      <<0, 0, 0, 1>>>>

\* A product with its factors in the other order.
Transformation_mul_reversed(self, rhs) ==
    LET e(i, j) == Sum([k \in 1..4 |-> rhs[i][k] * self[k][j]], 4)
    IN  Matrix4(e)

\* impl Mul for Transformation: self.0 * rhs.0
Transformation_mul(self, rhs) ==
    LET e(i, j) == Sum([k \in 1..4 |-> self[i][k] * rhs[k][j]], 4)
    IN  Matrix4(e)

\* The matrix without its row r and its column c.
Minor(m, r, c) ==
    [i \in 1..(Len(m) - 1) |->
        [j \in 1..(Len(m) - 1) |->
            m[IF i < r THEN i ELSE i + 1][IF j < c THEN j ELSE j + 1]]]

Sign(k) == IF k % 2 = 0 THEN 1 ELSE -1

RECURSIVE Determinant(_)
Determinant(m) ==
    IF Len(m) = 1 THEN m[1][1]
    ELSE Sum([j \in 1..Len(m) |->
                 Sign(1 + j) * m[1][j] * Determinant(Minor(m, 1, j))],
             Len(m))

\* The inverse times the determinant.
Adjugate(m) ==
    LET e(i, j) == Sign(i + j) * Determinant(Minor(m, j, i)) IN Matrix4(e)

\* Matrix4::try_inverse: None for a matrix whose determinant is 0, else
\* the inverse, kept as the adjugate over the determinant.
Matrix4_try_inverse(m) ==
    [some |-> Determinant(m) /= 0, numerators |-> Adjugate(m),
     denominator |-> Determinant(m)]

\* What inverse_transform_point and inverse_transform_vector come to: a
\* panic, or a value x / denominator, y / denominator.
Panic == [panicked |-> TRUE, x |-> 0, y |-> 0, denominator |-> 1]

Value(x, y, denominator) ==
    [panicked |-> FALSE, x |-> x, y |-> y, denominator |-> denominator]

\* try_inverse().expect(..).transform_point(&Point3::new(x, y, 0.0)): the
\* point is divided by its fourth coordinate unless that is 0.
Transformation_inverse_transform_point(self, point) ==
    LET inv == Matrix4_try_inverse(self)
        m == inv.numerators
        normalizer == m[4][1] * point.x + m[4][2] * point.y + m[4][4]
    IN  IF ~inv.some THEN Panic
        ELSE Value(m[1][1] * point.x + m[1][2] * point.y + m[1][4],
                   m[2][1] * point.x + m[2][2] * point.y + m[2][4],
                   IF normalizer /= 0 THEN normalizer ELSE inv.denominator)

\* try_inverse().expect(..).transform_vector(&Vector3::new(x, y, 0.0))
Transformation_inverse_transform_vector(self, vector) ==
    LET inv == Matrix4_try_inverse(self)
        m == inv.numerators
    IN  IF ~inv.some THEN Panic
        ELSE Value(m[1][1] * vector.x + m[1][2] * vector.y,
                   m[2][1] * vector.x + m[2][2] * vector.y,
                   inv.denominator)

NoInverse ==
    [method |-> "none", panicked |-> FALSE, x |-> 0, y |-> 0,
     denominator |-> 1]

\* A Target: its view and its transformation.  `given` is history: the
\* transformation it was made with.
Target(view, matrix, given) ==
    [view |-> view, transformation |-> matrix, given |-> given]

Target_new(view, width, height) ==
    Target(view, Transformation_orthographic(width, height),
           Transformation_orthographic(width, height))

\* A child whose transformation is applied before its parent's.
Target_transform_reversed(self, t) ==
    Target(self.view, Transformation_mul_reversed(self.transformation, t), t)

\* Target::transform: the Gpu is borrowed from self, the view is cloned.
Target_transform(self, t) ==
    Target(self.view, Transformation_mul(self.transformation, t), t)

\* Target::draw_texture_quads: what the Gpu is given.
Target_draw_texture_quads(self) ==
    [view |-> self.view, transformation |-> self.transformation]

(***************************************************************************)
(* The radio button of the UI Renderer (src/ui/radio.rs). The Renderer     *)
(* owns a batch of sprites; drawing a radio button adds the sprite of the  *)
(* circle, lit up when the mouse is over the button or its label, and on   *)
(* top of it the sprite of the dot when the button is selected.            *)
(***************************************************************************)
SPRITE == Rectangle(98, 28, 28, 28)

Sprite(source, position) ==
    [source |-> source, position |-> position, scale |-> <<1, 1>>]

\* Batch::add.
Batch_add(batch, sprite) == Append(batch, sprite)

\* The same, but the cursor follows is_selected and not the mouse.
Radio_draw_selected(batch, is_selected, bounds, bounds_with_label, cursor_position) ==
    LET mouse_over == contains(bounds_with_label, cursor_position)
        circle == Batch_add(batch,
                      Sprite([SPRITE EXCEPT !.x = SPRITE.x +
                                  (IF mouse_over THEN SPRITE.width ELSE 0)],
                             Point_new(bounds.x, bounds.y)))
    IN  [sprites |-> circle,
         cursor |-> IF is_selected THEN "Pointer" ELSE "Default"]

\* <Renderer as radio::Renderer>::draw: the batch after the call and the
\* MouseCursor returned.
Radio_draw(batch, is_selected, bounds, bounds_with_label, cursor_position) ==
    LET mouse_over == contains(bounds_with_label, cursor_position)
        circle == Batch_add(batch,
                      Sprite([SPRITE EXCEPT !.x = SPRITE.x +
                                  (IF mouse_over THEN SPRITE.width ELSE 0)],
                             Point_new(bounds.x, bounds.y)))
        dot == IF is_selected
               THEN Batch_add(circle,
                        Sprite([SPRITE EXCEPT !.x = SPRITE.x +
                                    SPRITE.width * 2],
                               Point_new(bounds.x, bounds.y)))
               ELSE circle
    IN  [sprites |-> dot,
         cursor |-> IF mouse_over THEN "Pointer" ELSE "Default"]

NoRadio == [op |-> "none"]

\* The other parts of the framework are at rest while the widgets run.
Idle ==
    /\ resolved = NoLayout
    /\ tasks = <<>>
    /\ worker = NoWorker
    /\ notified = <<>>
    /\ executed = <<>>
    /\ transformation = Transformation_identity
    /\ operations = <<>>
    /\ inverse = NoInverse
    /\ targets = <<>>
    /\ gpu = <<>>
    /\ sprites = <<>>
    /\ radio = NoRadio

(***************************************************************************)
(* The state machine.                                                      *)
(***************************************************************************)
NoCall ==
    [op |-> "none", event |-> NoEvent, layout |-> Leaf(RectFar),
     cursor_position |-> Point_new(0, 0), before |-> <<>>,
     responses |-> <<>>, completed |-> FALSE]

NoNode == Node_new(Style_default, <<>>)

NoDigest == [valid |-> FALSE, bytes |-> <<>>]

\* A freshly built widget: no pass has run on it.
Built(w, p) ==
    /\ root' = w
    /\ pushed' = p
    /\ call' = NoCall
    /\ messages' = <<>>
    /\ node' = NoNode
    /\ cursor' = "Default"
    /\ drawn' = <<>>
    /\ panicked' = FALSE
    /\ hasher' = <<>>
    /\ last_hasher' = NoDigest
    /\ delta' = <<>>
    /\ pending' = <<>>
    /\ armed' = FALSE
    /\ clicks' = 0
    /\ UNCHANGED otherVars

Init ==
    /\ root = Row_new
    /\ pushed = <<>>
    /\ call = NoCall
    /\ messages = <<>>
    /\ node = NoNode
    /\ cursor = "Default"
    /\ drawn = <<>>
    /\ panicked = FALSE
    /\ hasher = <<>>
    /\ last_hasher = NoDigest
    /\ delta = <<>>
    /\ pending = <<>>
    /\ armed = FALSE
    /\ clicks = 0
    /\ Idle

NewRow == call.op = "none" /\ Built(Row_new, <<>>)

NewCheckbox ==
    /\ call.op = "none"
    /\ \E is_checked \in BOOLEAN, label \in {LabelEmpty, LabelA} :
           Built(Checkbox_new(is_checked, label, 1), <<>>)

LabelColor ==
    /\ call.op = "none"
    /\ root.kind = "Checkbox"
    /\ \E color \in Colors : Built(Checkbox_label_color(root, color), <<>>)

NewButton == call.op = "none" /\ Built(Button_new(LabelA), <<>>)

OnClick ==
    /\ call.op = "none"
    /\ root.kind = "Button"
    /\ Built(Button_on_click(root, Clicked), <<>>)

Spacing ==
    /\ call.op = "none"
    /\ root.kind = "Row"
    /\ \E px \in Spacings : Built(Row_spacing(root, px), pushed)

Push ==
    /\ call.op = "none"
    /\ root.kind = "Row"
    /\ Len(root.children) < MaxChildren
    /\ \E child \in Elements :
           Built(Row_push(root, child), Append(pushed, child))

\* node(): no inputs but the widget.
Node ==
    /\ call.op = "none"
    /\ messages = <<>>
    /\ node' = WidgetNode(root)
    /\ call' = [NoCall EXCEPT !.op = "node"]
    /\ UNCHANGED otherVars
    /\ UNCHANGED <<root, pushed, messages, cursor, drawn, panicked, hasher,
                   last_hasher, delta, pending, armed, clicks>>

\* on_event(event, layout, cursor_position, &mut messages)
OnEvent ==
    /\ call.op = "none"
    /\ Len(messages) <= MaxPending
    /\ clicks < MaxClicks
    /\ \E event \in Events, layout \in Layouts(root),
          cursor_position \in CursorPositions :
           LET inside == contains(layout.bounds, cursor_position)
               completed == /\ root.kind = "Button"
                            /\ event = LeftReleased
                            /\ inside
                            /\ armed
           IN  /\ messages' = WidgetOnEvent(root, event, layout,
                                            cursor_position, messages)
               /\ call' = [op |-> "on_event", event |-> event,
                           layout |-> layout,
                           cursor_position |-> cursor_position,
                           before |-> messages, responses |-> <<>>,
                           completed |-> completed]
               /\ armed' = IF root.kind /= "Button" THEN armed
                           ELSE IF event = LeftPressed THEN inside
                           ELSE IF event = LeftReleased THEN FALSE
                           ELSE armed
               /\ clicks' = IF completed THEN clicks + 1 ELSE clicks
    /\ UNCHANGED otherVars
    /\ UNCHANGED <<root, pushed, node, cursor, drawn, panicked, hasher,
                   last_hasher, delta, pending>>

\* draw(renderer, layout, cursor_position) -> MouseCursor
Draw ==
    /\ call.op = "none"
    /\ messages = <<>>
    /\ root.kind \in {"Row", "Checkbox"}
    /\ \E layout \in Layouts(root), cursor_position \in CursorPositions,
          responses \in [1..NumLeaves(root) -> RendererCursors] :
           LET result == WidgetDraw(root, layout, cursor_position,
                                    responses, DrawStart)
           IN  /\ cursor' = result.cursor
               /\ drawn' = result.drawn
               /\ panicked' = result.panicked
               /\ call' = [NoCall EXCEPT !.op = "draw", !.layout = layout,
                                         !.cursor_position = cursor_position,
                                         !.responses = responses]
    /\ UNCHANGED otherVars
    /\ UNCHANGED <<root, pushed, messages, node, hasher, last_hasher, delta,
                   pending, armed, clicks>>

\* hash(state): the caller keeps the digest of the frame before.
Hash ==
    /\ call.op \in {"none", "hash"}
    /\ messages = <<>>
    /\ root.kind \in {"Row", "Checkbox"}
    /\ hasher' = WidgetHash(root, <<>>)
    /\ last_hasher' = [valid |-> call.op = "hash", bytes |-> hasher]
    /\ delta' = pending
    /\ pending' = <<>>
    /\ call' = [NoCall EXCEPT !.op = "hash"]
    /\ UNCHANGED otherVars
    /\ UNCHANGED <<root, pushed, messages, node, cursor, drawn, panicked,
                   armed, clicks>>

\* The pass has returned and the caller has read its result.  A pass that
\* panicked does not return.
Return ==
    /\ call.op /= "none"
    /\ ~panicked
    /\ call' = NoCall
    /\ node' = NoNode
    /\ cursor' = "Default"
    /\ drawn' = <<>>
    /\ hasher' = <<>>
    /\ last_hasher' = NoDigest
    /\ delta' = <<>>
    /\ UNCHANGED otherVars
    /\ UNCHANGED <<root, pushed, messages, panicked, pending, armed, clicks>>

\* The caller takes the messages out of the vector to update its state.
Drain ==
    /\ call.op = "none"
    /\ messages /= <<>>
    /\ messages' = <<>>
    /\ clicks' = 0
    /\ UNCHANGED otherVars
    /\ UNCHANGED <<root, pushed, call, node, cursor, drawn, panicked, hasher,
                   last_hasher, delta, pending, armed>>

Next ==
    \/ NewRow
    \/ NewCheckbox
    \/ LabelColor
    \/ NewButton
    \/ OnClick
    \/ Spacing
    \/ Push
    \/ Node
    \/ OnEvent
    \/ Draw
    \/ Hash
    \/ Return
    \/ Drain

Spec == Init /\ [][Next]_vars

(***************************************************************************)
(* Button: clicks.                                                         *)
(***************************************************************************)
Count(seq, x) == Cardinality({i \in 1..Len(seq) : seq[i] = x})

\* C1: an on_event call on a Button appends the configured on_click
\* message if and only if the event is a left release inside the bounds
\* that follows a left press inside the bounds; any other call, a release
\* after the cursor left the bounds included, appends nothing.
C1_ClickAppendsOnClick ==
    (root.kind = "Button" /\ root.on_click.some /\ call.op = "on_event") =>
        messages = IF call.completed
                   THEN Append(call.before, root.on_click.msg)
                   ELSE call.before

\* C2: the on_click messages a Button has appended are as many as the
\* clicks completed on it: one message per completed click.
C2_OneMessagePerClick ==
    (root.kind = "Button" /\ root.on_click.some) =>
        Count(messages, root.on_click.msg) = clicks

(***************************************************************************)
(* Checkbox: toggling.                                                     *)
(***************************************************************************)
IsLeftPress(event) ==
    /\ event.type = "MouseInput"
    /\ event.button = "Left"
    /\ event.state = "Pressed"

OverSomeChild(layout, point) ==
    \E i \in 1..Len(layout.children) :
        contains(layout.children[i].bounds, point)

\* C3: Checkbox::on_event appends exactly one message, on_toggle(!is_checked),
\* when the event is a left press and the cursor is inside the bounds of at
\* least one child of the layout; otherwise it appends nothing.
C3_CheckboxToggles ==
    (root.kind = "Checkbox" /\ call.op = "on_event") =>
        messages =
            IF /\ IsLeftPress(call.event)
               /\ OverSomeChild(call.layout, call.cursor_position)
            THEN call.before \o <<OnToggle(root.on_toggle, ~root.is_checked)>>
            ELSE call.before

\* A left press over the label only (the second child), not over the box:
\* one message was appended.
C3_Witness ==
    /\ root.kind = "Checkbox"
    /\ call.op = "on_event"
    /\ IsLeftPress(call.event)
    /\ Len(call.layout.children) = 2
    /\ ~contains(call.layout.children[1].bounds, call.cursor_position)
    /\ contains(call.layout.children[2].bounds, call.cursor_position)
    /\ Len(messages) = Len(call.before) + 1
    /\ messages[Len(messages)] = OnToggle(root.on_toggle, ~root.is_checked)

(***************************************************************************)
(* Row: the cursor a draw returns.                                         *)
(***************************************************************************)
\* The last draw ran on a Row, returned, and drew every child.
RowDrawn ==
    /\ root.kind = "Row"
    /\ call.op = "draw"
    /\ ~panicked
    /\ Len(call.layout.children) >= Len(root.children)

\* The renderer calls made before the i-th child is drawn.
DrawnBefore(i) ==
    Row_draw([root EXCEPT !.children = SubSeq(root.children, 1, i - 1)],
             call.layout, call.cursor_position, call.responses, DrawStart)

\* The cursor the i-th child returned to the Row.
ChildCursor(i) ==
    WidgetDraw(root.children[i], call.layout.children[i],
               call.cursor_position, call.responses, DrawnBefore(i)).cursor

\* C4: a Row one of whose children returns Pointer while every other child
\* returns Default returns Pointer, wherever that child stands.
C4_PointerChildWins ==
    RowDrawn =>
        \A i \in 1..Len(root.children) :
            (/\ ChildCursor(i) = "Pointer"
             /\ \A j \in 1..Len(root.children) :
                    j /= i => ChildCursor(j) = "Default")
            => cursor = "Pointer"

\* The first child returned Pointer and a later one Default.
C4_Witness ==
    /\ RowDrawn
    /\ Len(root.children) = 2
    /\ ChildCursor(1) = "Pointer"
    /\ ChildCursor(2) = "Default"
    /\ cursor = "Pointer"

(***************************************************************************)
(* Row: the order of the children in every pass.                           *)
(***************************************************************************)
\* What each pass over a Row gives when the children handed to push are
\* visited in the order of the push calls, each paired with the layout
\* child of the same index.
RECURSIVE MessagesInPushOrder(_, _)
MessagesInPushOrder(msgs, i) ==
    IF i > Min(Len(pushed), Len(call.layout.children))
    THEN msgs
    ELSE MessagesInPushOrder(
             WidgetOnEvent(pushed[i], call.event, call.layout.children[i],
                           call.cursor_position, msgs),
             i + 1)

RECURSIVE DrawsInPushOrder(_, _)
DrawsInPushOrder(acc, i) ==
    IF acc.panicked \/ i > Min(Len(pushed), Len(call.layout.children))
    THEN acc
    ELSE DrawsInPushOrder(
             WidgetDraw(pushed[i], call.layout.children[i],
                        call.cursor_position, call.responses, acc),
             i + 1)

RECURSIVE HashInPushOrder(_, _)
HashInPushOrder(state, i) ==
    IF i > Len(pushed)
    THEN state
    ELSE HashInPushOrder(WidgetHash(pushed[i], state), i + 1)

SameButMargin(a, b) == SetMarginEnd(a, Undefined) = SetMarginEnd(b, Undefined)

\* C5: every pass of a Row visits the children in the order they were
\* pushed: the children of its Node, the messages one on_event appends,
\* the renderer calls of a draw and the bytes fed to the Hasher are those
\* of the pushed children, in push order.
C5_PushOrder ==
    root.kind = "Row" =>
        /\ call.op = "node" =>
               /\ Len(node.children) = Len(pushed)
               /\ \A i \in 1..Len(pushed) :
                      SameButMargin(node.children[i], WidgetNode(pushed[i]))
        /\ call.op = "on_event" =>
               messages = MessagesInPushOrder(call.before, 1)
        /\ call.op = "draw" =>
               drawn = DrawsInPushOrder(DrawStart, 1).drawn
        /\ call.op = "hash" =>
               hasher = HashInPushOrder(
                            Hash_u16(root.spacing,
                                     Style_hash(root.style, <<>>)), 1)

\* One on_event made two different children, pushed in that order, append
\* their messages.
C5_Witness ==
    /\ root.kind = "Row"
    /\ call.op = "on_event"
    /\ Len(pushed) = 2
    /\ pushed[1] = CheckboxB
    /\ pushed[2] = CheckboxA
    /\ messages = call.before \o <<OnToggle(2, TRUE), OnToggle(1, FALSE)>>

(***************************************************************************)
(* Row::node: spacing as trailing margin.                                  *)
(***************************************************************************)
\* C6: in the Node of a Row every child but the last has margin.end =
\* Points(spacing) and the last child has margin.end = Undefined.
C6_TrailingMargin ==
    (root.kind = "Row" /\ call.op = "node") =>
        \A i \in 1..Len(node.children) :
            node.children[i].style.margin_end =
                IF i < Len(node.children)
                THEN Points(root.spacing)
                ELSE Undefined

\* A Row of two children and a spacing that is not zero.
C6_Witness ==
    /\ root.kind = "Row"
    /\ call.op = "node"
    /\ root.spacing = 255
    /\ Len(node.children) = 2
    /\ node.children[1].style.margin_end = Points(255)
    /\ node.children[2].style.margin_end = Undefined

(***************************************************************************)
(* The shape of the Node tree.                                             *)
(***************************************************************************)
\* The child widgets of a widget: a Row's children, none for a leaf.
ChildWidgets(w) == IF w.kind = "Row" THEN w.children ELSE <<>>

\* C7 as stated: the Node of a widget has as many children as the widget
\* has child widgets, none for a Checkbox or a Button.
C7_NodeChildrenAreChildWidgets ==
    call.op = "node" => Len(node.children) = Len(ChildWidgets(root))

RECURSIVE NodeShape(_, _)
NodeShape(w, n) ==
    CASE w.kind = "Row" ->
             /\ Len(n.children) = Len(w.children)
             /\ \A i \in 1..Len(w.children) :
                    NodeShape(w.children[i], n.children[i])
      [] w.kind = "Checkbox" ->
             /\ Len(n.children) = 2
             /\ n.children[1].children = <<>>
             /\ n.children[2].children = <<>>
      [] OTHER -> n.children = <<>>

\* C7, amended: the Node of a Row has one child per pushed child, each of
\* the same shape in turn, the Node of a Button has no children, and the
\* Node of a Checkbox has exactly two childless children, its box and its
\* label.
C7_NodeShape == call.op = "node" => NodeShape(root, node)

\* The Node of a Row holding a Checkbox and a Row.
C7_Witness ==
    /\ root.kind = "Row"
    /\ call.op = "node"
    /\ Len(root.children) = 2
    /\ root.children[1].kind = "Checkbox"
    /\ root.children[2].kind = "Row"
    /\ Len(node.children) = 2
    /\ Len(node.children[1].children) = 2
    /\ Len(node.children[2].children) = 1

(***************************************************************************)
(* A layout of another shape than the widget tree.                         *)
(***************************************************************************)
ShapeMismatch ==
    \/ /\ root.kind = "Row"
       /\ Len(call.layout.children) /= Len(root.children)
    \/ /\ root.kind = "Checkbox"
       /\ Len(call.layout.children) < 2

\* C8: on_event and draw panic when the layout they are given has not the
\* number of children the widget expects.
C8_MismatchPanics ==
    (call.op \in {"on_event", "draw"} /\ ShapeMismatch) => panicked

(***************************************************************************)
(* Hashing over two frames: the caller hashes a tree, builds it again with *)
(* some constructor arguments changed, and hashes it again.                *)
(***************************************************************************)
TreeFlat == Row_push(Row_push(Row_new, CheckboxA), CheckboxB)

TreeNested ==
    Row_push(Row_push(Row_spacing(Row_new, 255), Row_push(Row_new, Inner)),
             Checkbox_new(TRUE, LabelEmpty, 4))

HashTrees == {TreeFlat, TreeNested, CheckboxA}

InitHash ==
    /\ root \in HashTrees
    /\ pushed = ChildWidgets(root)
    /\ call = NoCall
    /\ messages = <<>>
    /\ node = NoNode
    /\ cursor = "Default"
    /\ drawn = <<>>
    /\ panicked = FALSE
    /\ hasher = <<>>
    /\ last_hasher = NoDigest
    /\ delta = <<>>
    /\ pending = <<>>
    /\ armed = FALSE
    /\ clicks = 0
    /\ Idle

\* The positions of the widgets of a tree: the indices from the root down.
RECURSIVE Paths(_)
Paths(w) ==
    {<<>>} \cup
        UNION {{<<i>> \o path : path \in Paths(w.children[i])} :
                  i \in 1..Len(ChildWidgets(w))}

RECURSIVE WidgetAt(_, _)
WidgetAt(w, path) ==
    IF path = <<>> THEN w
    ELSE WidgetAt(w.children[Head(path)], Tail(path))

RECURSIVE Replace(_, _, _)
Replace(w, path, new) ==
    IF path = <<>> THEN new
    ELSE [w EXCEPT !.children[Head(path)] = Replace(@, Tail(path), new)]

\* Between the first hash and the second the caller may build the tree anew.
CanRebuild ==
    /\ call.op = "hash"
    /\ ~last_hasher.valid
    /\ Len(pending) < MaxChanges

Rebuilt(w, argument) ==
    /\ root' = w
    /\ pushed' = ChildWidgets(w)
    /\ pending' = Append(pending, argument)
    /\ UNCHANGED otherVars
    /\ UNCHANGED <<call, messages, node, cursor, drawn, panicked, hasher,
                   last_hasher, delta, armed, clicks>>

SetChecked ==
    /\ CanRebuild
    /\ \E path \in Paths(root) :
           LET old == WidgetAt(root, path)
           IN  /\ old.kind = "Checkbox"
               /\ Rebuilt(Replace(root, path,
                              Checkbox_label_color(
                                  Checkbox_new(~old.is_checked, old.label,
                                               old.on_toggle),
                                  old.label_color)),
                          "is_checked")

SetLabelColor ==
    /\ CanRebuild
    /\ \E path \in Paths(root) :
           LET old == WidgetAt(root, path)
           IN  /\ old.kind = "Checkbox"
               /\ \E color \in Colors \ {old.label_color} :
                      Rebuilt(Replace(root, path,
                                      Checkbox_label_color(old, color)),
                              "label_color")

SetLabel ==
    /\ CanRebuild
    /\ \E path \in Paths(root) :
           LET old == WidgetAt(root, path)
           IN  /\ old.kind = "Checkbox"
               /\ \E label \in Labels \ {old.label} :
                      Rebuilt(Replace(root, path,
                                  Checkbox_label_color(
                                      Checkbox_new(old.is_checked, label,
                                                   old.on_toggle),
                                      old.label_color)),
                              "label")

SetSpacing ==
    /\ CanRebuild
    /\ \E path \in Paths(root) :
           LET old == WidgetAt(root, path)
           IN  /\ old.kind = "Row"
               /\ \E px \in Spacings \ {old.spacing} :
                      Rebuilt(Replace(root, path, Row_spacing(old, px)),
                              "spacing")

SetWidth ==
    /\ CanRebuild
    /\ \E path \in Paths(root) :
           LET old == WidgetAt(root, path)
           IN  /\ old.kind = "Row"
               /\ \E w \in Widths :
                      /\ old.style.width /= Points(w)
                      /\ Rebuilt(Replace(root, path, Row_width(old, w)),
                                 "style")

NextHash ==
    \/ Hash
    \/ SetChecked
    \/ SetLabelColor
    \/ SetLabel
    \/ SetSpacing
    \/ SetWidth

SpecHash == InitHash /\ [][NextHash]_vars

\* Two trees were hashed, one after the other.
TwoFrames == call.op = "hash" /\ last_hasher.valid

\* C9: the bytes fed to the Hasher depend on layout-relevant content only:
\* a tree built again from the same arguments, or with only is_checked
\* flags and label colours changed, feeds the same bytes.
C9_HashIgnoresState ==
    (/\ TwoFrames
     /\ \A k \in 1..Len(delta) : delta[k] \in {"is_checked", "label_color"})
    => hasher = last_hasher.bytes

\* A Checkbox was built again with its flag flipped, and another colour
\* given to a label, between the two hashes.
C9_Witness ==
    /\ TwoFrames
    /\ delta = <<"is_checked", "label_color">>
    /\ hasher = last_hasher.bytes

\* C10: a tree built again with one label changed, or the spacing or the
\* style of one Row, and otherwise the same, feeds other bytes to the
\* Hasher.
C10_HashSeesContent ==
    (/\ TwoFrames
     /\ Len(delta) = 1
     /\ delta[1] \in {"label", "spacing", "style"})
    => hasher /= last_hasher.bytes

\* The label of the Checkbox inside three Rows was changed to a prefix of
\* what it was.
C10_Witness ==
    /\ TwoFrames
    /\ delta = <<"label">>
    /\ root.kind = "Row"
    /\ Len(root.children) = 2
    /\ root.children[1].kind = "Row"
    /\ root.children[1].children[1].kind = "Row"
    /\ root.children[1].children[1].children[1].label = LabelA
    /\ hasher /= last_hasher.bytes

(***************************************************************************)
(* The Row without children.                                               *)
(***************************************************************************)
EmptyRow == root.kind = "Row" /\ root.children = <<>>

\* C11: every pass accepts a Row without children: node() returns a Node
\* without children, on_event leaves the messages as they were, draw returns
\* the Default cursor without calling a renderer, and no pass panics,
\* whatever layout it is given.
C11_EmptyRowAccepted ==
    EmptyRow =>
        /\ ~panicked
        /\ call.op = "node" => node.children = <<>>
        /\ call.op = "on_event" => messages = call.before
        /\ call.op = "draw" => cursor = "Default" /\ drawn = <<>>

\* A Row without children was drawn with a layout that has children, the
\* cursor over the first of them.
C11_Witness ==
    /\ EmptyRow
    /\ call.op = "draw"
    /\ Len(call.layout.children) > 0
    /\ contains(call.layout.children[1].bounds, call.cursor_position)
    /\ cursor = "Default"
    /\ drawn = <<>>
    /\ ~panicked

(***************************************************************************)
(* The layout of a menu: the caller builds a Column of Buttons as          *)
(* examples/menu.rs does and has its layout computed for the window.       *)
(***************************************************************************)
Available == [width |-> 1280, height |-> 1024]

ColumnSpacings == {0, 30}

ColumnHeights == {400}

ButtonWidths == {100}

InitLayout ==
    /\ root = Column_new
    /\ pushed = <<>>
    /\ call = NoCall
    /\ messages = <<>>
    /\ node = NoNode
    /\ cursor = "Default"
    /\ drawn = <<>>
    /\ panicked = FALSE
    /\ hasher = <<>>
    /\ last_hasher = NoDigest
    /\ delta = <<>>
    /\ pending = <<>>
    /\ armed = FALSE
    /\ clicks = 0
    /\ Idle

ColumnWidth ==
    /\ call.op = "none"
    /\ \E w \in Widths : Built(Column_width(root, w), pushed)

ColumnHeight ==
    /\ call.op = "none"
    /\ \E h \in ColumnHeights : Built(Column_height(root, h), pushed)

ColumnSpacing ==
    /\ call.op = "none"
    /\ \E px \in ColumnSpacings : Built(Column_spacing(root, px), pushed)

PushButton ==
    /\ call.op = "none"
    /\ Len(root.children) < MaxButtons
    /\ \E label \in {LabelA, LabelB} :
           LET button == Button_on_click(Button_new(label), Clicked)
           IN  Built(Column_push(root, button), Append(pushed, button))

PushWideButton ==
    /\ call.op = "none"
    /\ Len(root.children) < MaxButtons
    /\ \E w \in ButtonWidths :
           LET button == Button_width(Button_new(LabelA), w)
           IN  Built(Column_push(root, button), Append(pushed, button))

\* The layout of the tree is computed: its Node, then the solver.
ComputeLayout ==
    /\ call.op = "none"
    /\ node' = WidgetNode(root)
    /\ resolved' = Node_compute_layout(node', Available)
    /\ UNCHANGED <<rendererVars, loadVars, gfxVars>>
    /\ call' = [NoCall EXCEPT !.op = "compute_layout"]
    /\ UNCHANGED <<root, pushed, messages, cursor, drawn, panicked, hasher,
                   last_hasher, delta, pending, armed, clicks>>

\* The caller is done with the layout and builds the next tree.
DropLayout ==
    /\ call.op = "compute_layout"
    /\ call' = NoCall
    /\ node' = NoNode
    /\ resolved' = NoLayout
    /\ UNCHANGED <<rendererVars, loadVars, gfxVars>>
    /\ UNCHANGED <<root, pushed, messages, cursor, drawn, panicked, hasher,
                   last_hasher, delta, pending, armed, clicks>>

NextLayout ==
    \/ ColumnWidth
    \/ ColumnHeight
    \/ ColumnSpacing
    \/ PushButton
    \/ PushWideButton
    \/ ComputeLayout
    \/ DropLayout

SpecLayout == InitLayout /\ [][NextLayout]_vars

\* The layout of the i-th child of the root.
Bounds(i) == resolved.children[i].bounds

\* A Column with a width and no height, as the menu builds it.
MenuColumn ==
    /\ call.op = "compute_layout"
    /\ root.kind = "Column"
    /\ root.style.width /= Undefined
    /\ root.style.height = Undefined

\* C12: in a Column that has a width and a spacing, laid out for a window
\* of 1280x1024, every Button without a width of its own is as wide as the
\* Column and 50 high, each Button starts one spacing below the end of the
\* one before, and the Column ends where its last Button ends.
C12_MenuLayout ==
    MenuColumn =>
        LET count == Len(root.children)
        IN  /\ Len(resolved.children) = count
            /\ \A i \in 1..count :
                   /\ Bounds(i).height = 50
                   /\ root.children[i].style.width = Undefined
                          => Bounds(i).width = root.style.width.value
            /\ \A i \in 1..(count - 1) :
                   Bounds(i + 1).y - (Bounds(i).y + Bounds(i).height)
                       = root.spacing
            /\ count > 0 =>
                   Bounds(count).y + Bounds(count).height
                       = resolved.bounds.y + resolved.bounds.height

\* The menu of the example: width 300, spacing 30, three Buttons; the
\* Buttons are at 0, 80 and 160 and the Column is 210 high.
C12_Witness ==
    /\ MenuColumn
    /\ root.style.width = Points(300)
    /\ root.spacing = 30
    /\ Len(root.children) = 3
    /\ \A i \in 1..3 : root.children[i].style.width = Undefined
    /\ \A i \in 1..3 : Bounds(i).width = 300 /\ Bounds(i).height = 50
    /\ Bounds(1).y = 0
    /\ Bounds(2).y = 80
    /\ Bounds(3).y = 160
    /\ resolved.bounds.height = 210

\* In a Column with a height the Buttons grow into the space left over.
GrowsIntoHeight ==
    /\ call.op = "compute_layout"
    /\ root.style.height = Points(400)
    /\ Len(root.children) = 3
    /\ root.spacing = 30
    /\ \A i \in 1..3 : Bounds(i).height > 50

(***************************************************************************)
(* Loading: the caller creates Tasks, composes them and runs the Task that *)
(* is left.  `tasks` holds the Tasks in the order they were created; the   *)
(* composing methods take the last ones.  Task::run is followed closure    *)
(* by closure.                                                             *)
(***************************************************************************)
\* The titles the caller gives its stages, one after the other.
Titles == <<"Generating map...", "Loading terrain...">>

\* What a loader of the crate may declare and notify: more work than
\* declared, then so much work that the count overflows.
Loaders == {[total_work |-> 1, works |-> <<3, Modulus - 3>>]}

RECURSIVE Functions(_)
\* The user functions of a closure.
Functions(function) ==
    (IF function.f /= 0 THEN {function.f} ELSE {})
        \cup UNION {Functions(function.inner[i]) :
                        i \in 1..Len(function.inner)}

RECURSIVE Stages(_)
\* The number of stages of a closure.
Stages(function) ==
    (IF function.kind = "stage" THEN 1 ELSE 0)
        + Sum([i \in 1..Len(function.inner) |-> Stages(function.inner[i])],
              Len(function.inner))

AllFunctions == UNION {Functions(tasks[i].function) : i \in 1..Len(tasks)}

AllStages ==
    Sum([i \in 1..Len(tasks) |-> Stages(tasks[i].function)], Len(tasks))

\* A user function no Task holds yet.
NewFunction == Cardinality(AllFunctions) + 1

\* A join takes two or three Tasks: the caller holds no more than three.
CanCreate ==
    /\ worker.phase = "idle"
    /\ Cardinality(AllFunctions) < MaxFunctions
    /\ Len(tasks) < 3

Last(seq) == seq[Len(seq)]

Front(seq, n) == SubSeq(seq, 1, Len(seq) - n)

InitLoad ==
    /\ root = Row_new
    /\ pushed = <<>>
    /\ call = NoCall
    /\ messages = <<>>
    /\ node = NoNode
    /\ cursor = "Default"
    /\ drawn = <<>>
    /\ panicked = FALSE
    /\ hasher = <<>>
    /\ last_hasher = NoDigest
    /\ delta = <<>>
    /\ pending = <<>>
    /\ armed = FALSE
    /\ clicks = 0
    /\ Idle

Composed(ts) ==
    /\ tasks' = ts
    /\ UNCHANGED <<worker, notified, executed, uiVars, layoutVars,
                   rendererVars, gfxVars>>

TaskNew == CanCreate /\ Composed(Append(tasks, Task_new(NewFunction)))

TaskUsingGpu ==
    CanCreate /\ Composed(Append(tasks, Task_using_gpu(NewFunction)))

\* A loader of the crate, the first Task the caller asks for.
TaskSequence ==
    /\ CanCreate
    /\ tasks = <<>>
    /\ \E loader \in Loaders :
           Composed(Append(tasks,
                           Task_sequence(loader.total_work,
                                         Loader(NewFunction, loader.works))))

TaskStage ==
    /\ worker.phase = "idle"
    /\ tasks /= <<>>
    /\ AllStages < MaxStages
    /\ LET title == Titles[(AllStages % Len(Titles)) + 1]
       IN  Composed(Append(Front(tasks, 1), Task_stage(title, Last(tasks))))

TaskMap ==
    /\ worker.phase = "idle"
    /\ Cardinality(AllFunctions) < MaxFunctions
    /\ tasks /= <<>>
    /\ Composed(Append(Front(tasks, 1), Task_map(Last(tasks), NewFunction)))

Join2 ==
    /\ worker.phase = "idle"
    /\ Len(tasks) >= 2
    /\ Composed(Append(Front(tasks, 2),
                       Join_pair(tasks[Len(tasks) - 1], Last(tasks))))

Join3 ==
    /\ worker.phase = "idle"
    /\ Len(tasks) >= 3
    /\ Composed(Append(Front(tasks, 3),
                       Join_triple(tasks[Len(tasks) - 2],
                                   tasks[Len(tasks) - 1], Last(tasks))))

\* The listener is called with the Progress as it is now.  `by` and
\* `after` are history: the user functions of the closure that notifies
\* and the number of user functions called so far.
Listened(progress, under, by) ==
    notified' = Append(notified, [progress |-> progress, under |-> under,
                                  by |-> by, after |-> Len(executed)])

\* Task::run, up to the call of the Task's function.
Run ==
    /\ worker.phase = "idle"
    /\ Len(tasks) = 1
    /\ LET self == tasks[1]
           started == Worker_notify_progress(
                          Progress_new(self.total_work), 0, TRUE)
       IN  /\ worker' = [phase |-> "running", task |-> self,
                         progress |-> started.progress,
                         todo |-> <<Call(self.function, <<>>)>>,
                         values |-> <<>>]
           /\ Listened(started.progress, <<>>, {})
    /\ tasks' = <<>>
    /\ UNCHANGED <<executed, uiVars, layoutVars, rendererVars, gfxVars>>

Running(op, kinds) ==
    /\ worker.phase = "running"
    /\ worker.todo /= <<>>
    /\ Head(worker.todo).op = op
    /\ Head(worker.todo).function.kind \in kinds

\* The closure of Task::new calls f.
CallNew ==
    /\ Running("call", {"new"})
    /\ executed' = Append(executed, Head(worker.todo).function.f)
    /\ worker' = [worker EXCEPT
           !.todo = Tail(@),
           !.values = Append(@, Output(Head(worker.todo).function.f, <<>>))]
    /\ UNCHANGED <<tasks, notified, uiVars, layoutVars, rendererVars, gfxVars>>

\* A closure given to Task::sequence calls f; its notifications follow.
CallSequence ==
    /\ Running("call", {"using_gpu", "sequence"})
    /\ LET frame == Head(worker.todo)
           works == frame.function.works
       IN  /\ executed' = Append(executed, frame.function.f)
           /\ worker' = [worker EXCEPT
                  !.todo = [i \in 1..Len(works) |->
                               Notify(frame.function.f, works[i],
                                      frame.under)] \o Tail(@),
                  !.values = Append(@, Output(frame.function.f, <<>>))]
    /\ UNCHANGED <<tasks, notified, uiVars, layoutVars, rendererVars, gfxVars>>

\* The closure of Task::stage calls Worker::with_stage.
CallStage ==
    /\ Running("call", {"stage"})
    /\ LET frame == Head(worker.todo)
           title == frame.function.title
           staged == Worker_with_stage(worker, title,
                                       frame.function.inner[1], frame.under)
           told == Worker_notify_progress(staged.progress, 0, TRUE)
       IN  /\ worker' = [staged EXCEPT !.progress = told.progress]
           /\ Listened(told.progress, Append(frame.under, title),
                       Functions(frame.function))
    /\ UNCHANGED <<tasks, executed, uiVars, layoutVars, rendererVars, gfxVars>>

\* The closure of Task::map calls the Task's function, then f.
CallMap ==
    /\ Running("call", {"map"})
    /\ LET frame == Head(worker.todo)
       IN  worker' = [worker EXCEPT
               !.todo = <<Call(frame.function.inner[1], frame.under),
                          Apply(frame.function.f, frame.under)>>
                        \o Tail(@)]
    /\ UNCHANGED <<tasks, notified, executed, uiVars, layoutVars,
                   rendererVars, gfxVars>>

\* The closure of a join calls the functions of its Tasks in turn.
CallJoin ==
    /\ Running("call", {"join"})
    /\ LET frame == Head(worker.todo)
           inner == frame.function.inner
       IN  worker' = [worker EXCEPT
               !.todo = [i \in 1..Len(inner) |->
                            Call(inner[i], frame.under)]
                        \o <<Tuple(frame.under)>> \o Tail(@)]
    /\ UNCHANGED <<tasks, notified, executed, uiVars, layoutVars,
                   rendererVars, gfxVars>>

\* Worker::notify_progress(work)
NotifyProgress ==
    /\ Running("notify", {"none"})
    /\ \E overflow_checks \in BOOLEAN :
           LET frame == Head(worker.todo)
               told == Worker_notify_progress(worker.progress, frame.work,
                                              overflow_checks)
           IN  IF told.panicked
               THEN /\ worker' = [worker EXCEPT !.phase = "panicked"]
                    /\ UNCHANGED notified
               ELSE /\ worker' = [worker EXCEPT !.progress = told.progress,
                                                !.todo = Tail(@)]
                    /\ Listened(told.progress, frame.under, {frame.f})
    /\ UNCHANGED <<tasks, executed, uiVars, layoutVars, rendererVars, gfxVars>>

\* with_stage, after f has returned: let _ = self.progress.stages.pop()
PopStage ==
    /\ Running("pop", {"none"})
    /\ worker' = [worker EXCEPT
           !.progress.stages = IF @ = <<>> THEN @ ELSE Front(@, 1),
           !.todo = Tail(@)]
    /\ UNCHANGED <<tasks, notified, executed, uiVars, layoutVars,
                   rendererVars, gfxVars>>

\* The closure of map, after the Task's function has returned: f(value)
ApplyMap ==
    /\ Running("apply", {"none"})
    /\ executed' = IF Head(worker.todo).f = Flatten THEN executed
                   ELSE Append(executed, Head(worker.todo).f)
    /\ worker' = [worker EXCEPT
           !.todo = Tail(@),
           !.values = Map_apply(@, Head(worker.todo).f)]
    /\ UNCHANGED <<tasks, notified, uiVars, layoutVars, rendererVars, gfxVars>>

\* The closure of a join, after its calls have returned: the tuple.
JoinReturn ==
    /\ Running("tuple", {"none"})
    /\ worker' = [worker EXCEPT !.todo = Tail(@),
                                !.values = Join_tuple(@)]
    /\ UNCHANGED <<tasks, notified, executed, uiVars, layoutVars,
                   rendererVars, gfxVars>>

\* Task::run returns the value.
Returned ==
    /\ worker.phase = "running"
    /\ worker.todo = <<>>
    /\ worker' = [worker EXCEPT !.phase = "returned"]
    /\ UNCHANGED <<tasks, notified, executed, uiVars, layoutVars,
                   rendererVars, gfxVars>>

\* The caller is done with the run, or the panic has unwound.
Dropped ==
    /\ worker.phase \in {"returned", "panicked"}
    /\ worker' = NoWorker
    /\ notified' = <<>>
    /\ executed' = <<>>
    /\ UNCHANGED <<tasks, uiVars, layoutVars, rendererVars, gfxVars>>

NextLoad ==
    \/ TaskNew
    \/ TaskUsingGpu
    \/ TaskSequence
    \/ TaskStage
    \/ TaskMap
    \/ Join2
    \/ Join3
    \/ Run
    \/ CallNew
    \/ CallSequence
    \/ CallStage
    \/ CallMap
    \/ CallJoin
    \/ NotifyProgress
    \/ PopStage
    \/ ApplyMap
    \/ JoinReturn
    \/ Returned
    \/ Dropped

SpecLoad == InitLoad /\ [][NextLoad]_vars


(***************************************************************************)
(* Progress: the work completed.                                           *)
(***************************************************************************)
\* C13: every Progress the listener is called with has a completed_work()
\* between 0 and its total_work(), whatever work was notified and however
\* the Task was composed.
C13_CompletedWithinTotal ==
    \A k \in 1..Len(notified) :
        LET progress == notified[k].progress
        IN  /\ 0 <= Progress_completed_work(progress)
            /\ Progress_completed_work(progress)
                   <= Progress_total_work(progress)

\* A joined Task has notified more work than its total: the listener was
\* called with a count over the total.
C13_Witness ==
    /\ worker.phase = "running"
    /\ worker.task.function.kind = "join"
    /\ \E k \in 1..Len(notified) :
           /\ notified[k].progress.work_completed
                  > notified[k].progress.total_work
           /\ Progress_completed_work(notified[k].progress)
                  = Progress_total_work(notified[k].progress)

(***************************************************************************)
(* Task: the total work.                                                   *)
(***************************************************************************)
\* The total of the Task a composing step has made, from the totals of the
\* Tasks it was made of.
TotalOfNew ==
    LET made == Last(tasks')
        kind == made.function.kind
        n == Len(tasks)
    IN  CASE kind \in {"new", "using_gpu"} -> 1
          [] kind \in {"stage"} -> Task_total_work(tasks[n])
          [] kind = "map" /\ made.function.f /= Flatten ->
                 Task_total_work(tasks[n])
          [] kind = "map" /\ made.function.f = Flatten ->
                 Task_total_work(tasks[n - 2]) + Task_total_work(tasks[n - 1])
                     + Task_total_work(tasks[n])
          [] kind = "join" ->
                 Task_total_work(tasks[n - 1]) + Task_total_work(tasks[n])
          [] OTHER -> Task_total_work(made)

\* C14: the total work of a Task is known when it is made: 1 for new and
\* using_gpu, the total of the wrapped Task for stage and map, the sum of
\* the totals of the joined Tasks for a join of two or three; a Task in
\* hand keeps its total, and every Progress of a run reports the total of
\* the Task that is run.
C14_TotalWorkFixed ==
    [][/\ (worker.phase = "idle" /\ tasks' /= tasks /\ tasks' /= <<>>) =>
              /\ Task_total_work(Last(tasks')) = TotalOfNew
              /\ \A i \in 1..(Len(tasks') - 1) : tasks'[i] = tasks[i]
       /\ \A k \in 1..Len(notified') :
              Progress_total_work(notified'[k].progress)
                  = Task_total_work(worker'.task)]_vars

\* The join of three Tasks, of total 3, has run and the listener was
\* called more than once.
C14_Witness ==
    /\ worker.phase = "returned"
    /\ worker.task.function.kind = "map"
    /\ worker.task.function.f = Flatten
    /\ Task_total_work(worker.task) = 3
    /\ Len(notified) > 1
    /\ \A k \in 1..Len(notified) :
           Progress_total_work(notified[k].progress) = 3

(***************************************************************************)
(* Task: laziness.                                                         *)
(***************************************************************************)
Calls(f) == Cardinality({k \in 1..Len(executed) : executed[k] = f})

\* C15: while Tasks are created and composed no user function is called
\* and the listener is not called; during a run no function is called
\* twice, and when Task::run has returned every function of the Task has
\* been called exactly once.
C15_Lazy ==
    /\ worker.phase = "idle" => executed = <<>> /\ notified = <<>>
    /\ \A k \in 1..Len(executed) :
           /\ executed[k] \in Functions(worker.task.function)
           /\ Calls(executed[k]) = 1
    /\ worker.phase = "returned" =>
           \A f \in Functions(worker.task.function) : Calls(f) = 1

\* Three Tasks were joined, nothing was called meanwhile; the join has run
\* and the three functions were called in the order of the tuple.
C15_Witness ==
    /\ worker.phase = "returned"
    /\ worker.task.function.kind = "map"
    /\ worker.task.function.f = Flatten
    /\ executed = <<1, 2, 3>>

\* Two Tasks are in hand, one of them under a stage, and nothing has run.
C15_WitnessIdle ==
    /\ worker.phase = "idle"
    /\ Len(tasks) = 2
    /\ tasks[1].function.kind = "stage"
    /\ executed = <<>>
    /\ notified = <<>>

(***************************************************************************)
(* Progress: the stage.                                                    *)
(***************************************************************************)
Innermost(under) ==
    IF under = <<>> THEN NoStage ELSE SomeStage(Last(under))

\* C16: every Progress notified reports as stage() the title of the
\* innermost stage the notifying Task was put under, none if it is under
\* none; while Task::run is running the stack of stages holds the titles of
\* the stages around what runs next, so a title is removed when its Task
\* has finished; when Task::run has returned the stack is empty.
C16_StageIsInnermost ==
    /\ \A k \in 1..Len(notified) :
           Progress_stage(notified[k].progress)
               = Innermost(notified[k].under)
    /\ (worker.phase = "running" /\ worker.todo /= <<>>) =>
           worker.progress.stages = Head(worker.todo).under
    /\ worker.phase = "returned" => worker.progress.stages = <<>>

\* A Task under two stages has notified its work, and after it a Task
\* under the outer stage only: the outer title was current again.
C16_Witness ==
    /\ worker.phase = "returned"
    /\ \E k \in 1..Len(notified), l \in 1..Len(notified) :
           /\ k < l
           /\ Len(notified[k].under) = 2
           /\ notified[k].under[1] /= notified[k].under[2]
           /\ notified[k].progress.work_completed = 1
           /\ notified[l].under = <<notified[k].under[1]>>
           /\ notified[l].progress.work_completed = 2
           /\ Progress_stage(notified[l].progress)
                  = SomeStage(notified[k].under[1])

(***************************************************************************)
(* Graphics: the caller composes a Transformation from the constructors    *)
(* and either inverts it on a point or a vector, or opens a Target and     *)
(* draws through it and through Targets transformed by it.                 *)
(***************************************************************************)
Operation(name, matrix) == [name |-> name, matrix |-> matrix]

\* The constructors with the arguments the caller gives them.
Constructors ==
    {Operation("identity", Transformation_identity),
     Operation("orthographic(2, 1)", Transformation_orthographic(2, 1)),
     Operation("translate(1, 2)",
               Transformation_translate(Vector_new(1, 2))),
     Operation("scale(2)", Transformation_scale(2)),
     Operation("scale(0)", Transformation_scale(0)),
     Operation("nonuniform_scale(2, -1)",
               Transformation_nonuniform_scale(Vector_new(2, -1))),
     Operation("rotate(1)", Transformation_rotate(1))}

Views == {"frame", "canvas"}

InitGfx ==
    /\ root = Row_new
    /\ pushed = <<>>
    /\ call = NoCall
    /\ messages = <<>>
    /\ node = NoNode
    /\ cursor = "Default"
    /\ drawn = <<>>
    /\ panicked = FALSE
    /\ hasher = <<>>
    /\ last_hasher = NoDigest
    /\ delta = <<>>
    /\ pending = <<>>
    /\ armed = FALSE
    /\ clicks = 0
    /\ Idle

Composing == targets = <<>> /\ inverse.method = "none"

\* One of the constructors is called.
Construct ==
    /\ Composing
    /\ operations = <<>>
    /\ \E c \in Constructors :
           /\ transformation' = c.matrix
           /\ operations' = <<c.name>>
    /\ UNCHANGED <<inverse, targets, gpu, uiVars, layoutVars, rendererVars,
                   loadVars>>

\* transformation * constructor(..)
Multiply ==
    /\ Composing
    /\ operations /= <<>>
    /\ Len(operations) < MaxFactors
    /\ \E c \in Constructors :
           /\ transformation' = Transformation_mul(transformation, c.matrix)
           /\ operations' = Append(operations, c.name)
    /\ UNCHANGED <<inverse, targets, gpu, uiVars, layoutVars, rendererVars,
                   loadVars>>

Inverted(method, outcome) ==
    inverse' = [method |-> method, panicked |-> outcome.panicked,
                x |-> outcome.x, y |-> outcome.y,
                denominator |-> outcome.denominator]

InverseTransformPoint ==
    /\ Composing
    /\ operations /= <<>>
    /\ Inverted("point",
                Transformation_inverse_transform_point(transformation,
                                                       Point_new(1, 2)))
    /\ UNCHANGED <<transformation, operations, targets, gpu, uiVars,
                   layoutVars, rendererVars, loadVars>>

InverseTransformVector ==
    /\ Composing
    /\ operations /= <<>>
    /\ Inverted("vector",
                Transformation_inverse_transform_vector(transformation,
                                                        Vector_new(1, 2)))
    /\ UNCHANGED <<transformation, operations, targets, gpu, uiVars,
                   layoutVars, rendererVars, loadVars>>

\* The caller starts over.
Discard ==
    /\ targets = <<>>
    /\ operations /= <<>>
    /\ transformation' = Transformation_identity
    /\ operations' = <<>>
    /\ inverse' = NoInverse
    /\ UNCHANGED <<targets, gpu, uiVars, layoutVars, rendererVars, loadVars>>

\* Target::new, for a Frame or a Canvas.
NewTarget ==
    /\ Composing
    /\ \E view \in Views, width \in {1, 2} :
           targets' = <<Target_new(view, width, 2)>>
    /\ UNCHANGED <<transformation, operations, inverse, gpu, uiVars,
                   layoutVars, rendererVars, loadVars>>

\* Target::transform with the Transformation composed, on the Target that
\* is not borrowed: the last.
Transform ==
    /\ targets /= <<>>
    /\ Len(targets) < MaxTargets
    /\ targets' = Append(targets,
                         Target_transform(Last(targets), transformation))
    /\ UNCHANGED <<transformation, operations, inverse, gpu, uiVars,
                   layoutVars, rendererVars, loadVars>>

\* Target::draw_texture_quads; `depth` is history: the Target drawn on.
DrawQuads ==
    /\ targets /= <<>>
    /\ Len(gpu) < MaxDraws
    /\ LET given == Target_draw_texture_quads(Last(targets))
       IN  gpu' = Append(gpu, [depth |-> Len(targets), view |-> given.view,
                               transformation |-> given.transformation])
    /\ UNCHANGED <<transformation, operations, inverse, targets, uiVars,
                   layoutVars, rendererVars, loadVars>>

\* The last Target goes out of scope; with the first the frame is over.
DropTarget ==
    /\ targets /= <<>>
    /\ targets' = Front(targets, 1)
    /\ gpu' = IF Len(targets) = 1 THEN <<>> ELSE gpu
    /\ UNCHANGED <<transformation, operations, inverse, uiVars, layoutVars,
                   rendererVars, loadVars>>

NextGfx ==
    \/ Construct
    \/ Multiply
    \/ InverseTransformPoint
    \/ InverseTransformVector
    \/ Discard
    \/ NewTarget
    \/ Transform
    \/ DrawQuads
    \/ DropTarget

SpecGfx == InitGfx /\ [][NextGfx]_vars

\* C17: a Target made by transform has the transformation of its parent
\* times the given one and the view of its parent; the parent keeps the
\* transformation and the view it was made with, and what it draws, a
\* child dropped or not, goes to the Gpu with these.
C17_TransformLeavesParent ==
    /\ \A i \in 2..Len(targets) :
           /\ targets[i].transformation
                  = Transformation_mul(targets[i - 1].transformation,
                                       targets[i].given)
           /\ targets[i].view = targets[i - 1].view
    /\ targets /= <<>> => targets[1].transformation = targets[1].given
    /\ \A k \in 1..Len(gpu) :
           gpu[k].depth = 1 =>
               /\ gpu[k].transformation = targets[1].given
               /\ gpu[k].view = targets[1].view

\* A child made with a translation has drawn and was dropped, and the
\* parent has drawn after it with its own transformation.
C17_Witness ==
    /\ Len(targets) = 1
    /\ operations = <<"scale(2)", "translate(1, 2)">>
    /\ Len(gpu) = 2
    /\ gpu[1].depth = 2
    /\ gpu[1].transformation
           = Transformation_mul(targets[1].transformation, transformation)
    /\ gpu[1].transformation /= targets[1].transformation
    /\ gpu[2].depth = 1
    /\ gpu[2].transformation = targets[1].transformation

\* C18: inverse_transform_point and inverse_transform_vector return a
\* value for every Transformation made of the public constructors and of
\* their products: they never panic.
C18_AlwaysInvertible == inverse.method /= "none" => ~inverse.panicked

\* A panic is what a matrix without inverse comes to, and only that.
PanicsIffSingular ==
    inverse.method /= "none" =>
        (inverse.panicked <=> Determinant(transformation) = 0)

(***************************************************************************)
(* Row: every child is drawn, and the cursor kept is the last that is not  *)
(* Default.                                                                *)
(***************************************************************************)
\* A draw of a Row has returned.
RowDrawReturned == root.kind = "Row" /\ call.op = "draw" /\ ~panicked

\* The children that returned another cursor than Default.
NotDefault == {i \in 1..Len(root.children) : ChildCursor(i) /= "Default"}

Greatest(set) == CHOOSE i \in set : \A j \in set : j <= i

\* The cursor a Row that has drawn all its children returns: Default if
\* and only if every child returned Default, else the cursor of the last
\* child that returned another.
FoldKeepsLastNotDefault ==
    RowDrawn =>
        cursor = IF NotDefault = {} THEN "Default"
                 ELSE ChildCursor(Greatest(NotDefault))

\* C19: a draw of a Row draws every child once, so that a Row of
\* Checkboxes gives the renderer one checkbox to draw for each of them, and
\* returns Default if and only if every child returned Default, else the
\* cursor of the last child that returned another.
C19_DrawsEveryChildOnce ==
    RowDrawReturned =>
        /\ (\A i \in 1..Len(root.children) :
                root.children[i].kind = "Checkbox")
               => CheckboxCalls(drawn) = Len(root.children)
        /\ Len(call.layout.children) >= Len(root.children)
               => FoldKeepsLastNotDefault

\* Two children returned cursors that are not Default and the Row returned
\* the cursor of the second; in another draw the second returned Default
\* and the Row the cursor of the first.
LaterOverrides ==
    /\ RowDrawn
    /\ Len(root.children) = 2
    /\ ChildCursor(1) = "Pointer"
    /\ ChildCursor(2) = "Grab"
    /\ cursor = "Grab"

(***************************************************************************)
(* on_event only appends.                                                  *)
(***************************************************************************)
IsPrefix(s, t) == Len(s) <= Len(t) /\ SubSeq(t, 1, Len(s)) = s

\* C20: when on_event has returned from a Row or a Checkbox, the messages
\* that were in the vector before the call are still there, unchanged and
\* in their order, before whatever the call has appended.
C20_OnlyAppends ==
    (call.op = "on_event" /\ root.kind \in {"Row", "Checkbox"}) =>
        IsPrefix(call.before, messages)

\* A Row was given a left press while a message was waiting in the vector,
\* and a child has appended its own.
C20_Witness ==
    /\ call.op = "on_event"
    /\ root.kind = "Row"
    /\ call.before /= <<>>
    /\ Len(messages) > Len(call.before)
    /\ IsPrefix(call.before, messages)
    /\ messages[Len(messages)] /= call.before[1]

(***************************************************************************)
(* Task: the end of a run.                                                 *)
(***************************************************************************)
RECURSIVE Leaves(_, _)
\* The number of closures of a kind in a closure.
Leaves(function, kind) ==
    (IF function.kind = kind THEN 1 ELSE 0)
        + Sum([i \in 1..Len(function.inner) |->
                   Leaves(function.inner[i], kind)],
              Len(function.inner))

\* The Task was made with Task::new, Task::using_gpu, Task::stage,
\* Task::map and join alone: no closure of the crate is in it.
Public(task) == Leaves(task.function, "sequence") = 0

\* C22: when Task::run has returned from a Task made with new, using_gpu,
\* stage, map and join, the last Progress the listener was called with has
\* a completed_work() equal to its total_work().
C22_FinishedIsComplete ==
    (worker.phase = "returned" /\ Public(worker.task)) =>
        Progress_completed_work(Last(notified).progress)
            = Progress_total_work(Last(notified).progress)

\* What is missing at the end of such a run is one unit of work for each
\* Task::new in the Task: its closure counts for 1 in the total and never
\* notifies.
ShortByTaskNew ==
    (worker.phase = "returned" /\ Public(worker.task)) =>
        /\ Progress_total_work(Last(notified).progress)
               = Leaves(worker.task.function, "new")
                     + Leaves(worker.task.function, "using_gpu")
        /\ Progress_completed_work(Last(notified).progress)
               = Leaves(worker.task.function, "using_gpu")

\* A Task::new alone has run: the listener was called once, with nothing
\* completed out of 1.
NewAloneReportsNothing ==
    /\ worker.phase = "returned"
    /\ worker.task.function.kind = "new"
    /\ executed = <<1>>
    /\ Len(notified) = 1
    /\ Progress_completed_work(notified[1].progress) = 0
    /\ Progress_total_work(notified[1].progress) = 1

C23_WitnessStaged ==
    /\ worker.phase = "running"
    /\ executed = <<>>
    /\ Len(notified) = 3

(***************************************************************************)
(* Join: the order of a run.                                               *)
(***************************************************************************)
RECURSIVE Joins(_)
\* The closures of the joins in a closure.
Joins(function) ==
    (IF function.kind = "join" THEN {function} ELSE {})
        \cup UNION {Joins(function.inner[i]) :
                        i \in 1..Len(function.inner)}

RECURSIVE Ids(_)
\* The user functions that made a value.
Ids(value) ==
    (IF value.f /= 0 THEN {value.f} ELSE {})
        \cup UNION {Ids(value.parts[i]) : i \in 1..Len(value.parts)}

\* The user functions called before the k-th notification.
CalledBefore(k) == {executed[p] : p \in 1..notified[k].after}

\* All that the earlier closure has done so far came before anything the
\* later one has done: the calls of user functions, the notifications
\* made within each, and the ones with respect to the others.
RunsBefore(earlier, later) ==
    LET first == Functions(earlier)
        second == Functions(later)
        calls(fs) == {p \in 1..Len(executed) : executed[p] \in fs}
        notes(fs) == {k \in 1..Len(notified) :
                         notified[k].by /= {} /\ notified[k].by \subseteq fs}
        calls_first == calls(first)
        calls_second == calls(second)
        notes_first == notes(first)
        notes_second == notes(second)
    IN  /\ \A p \in calls_first : \A q \in calls_second : p < q
        /\ \A p \in notes_first : \A q \in notes_second : p < q
        /\ \A k \in notes_first : CalledBefore(k) \cap second = {}
        /\ \A k \in notes_second : first \subseteq CalledBefore(k)

\* The Tasks a join of three was made of, in the order of the tuple.
TripleOf(function) ==
    <<function.inner[1].inner[1].inner[1],
      function.inner[1].inner[1].inner[2],
      function.inner[1].inner[2]>>

\* The value has a part for each of the closures, made by the functions
\* of the closure at the same position.
PartsMatch(value, closures) ==
    /\ value.f = 0
    /\ Len(value.parts) = Len(closures)
    /\ \A i \in 1..Len(closures) :
           Ids(value.parts[i]) = Functions(closures[i])

\* C24: in the run of a Task that holds a join, what a Task of the join
\* does (calling its functions, notifying progress and stages) comes
\* before all that a Task further right in the tuple does, so that the
\* first has completed when the second starts and the second when the
\* third starts; and the value a join of two or three returns has at each
\* position the value of the Task at that position.
C24_JoinInOrder ==
    /\ \A join \in Joins(worker.task.function) :
           \A i, k \in 1..Len(join.inner) :
               i < k => RunsBefore(join.inner[i], join.inner[k])
    /\ (worker.phase = "returned" /\ worker.task.function.kind = "join") =>
           /\ Len(worker.values) = 1
           /\ PartsMatch(worker.values[1], worker.task.function.inner)
    /\ (/\ worker.phase = "returned"
        /\ worker.task.function.kind = "map"
        /\ worker.task.function.f = Flatten) =>
           /\ Len(worker.values) = 1
           /\ PartsMatch(worker.values[1], TripleOf(worker.task.function))

\* The join of a Task under a stage that uses the GPU, a Task that uses
\* the GPU and a Task::new has run: the stage and the work of the first
\* were notified before the work of the second, and the three values are
\* in their places.
C24_Witness ==
    /\ worker.phase = "returned"
    /\ worker.task.function.kind = "map"
    /\ worker.task.function.f = Flatten
    /\ TripleOf(worker.task.function)[1].kind = "stage"
    /\ executed = <<1, 2, 3>>
    /\ [k \in 1..Len(notified) |-> notified[k].by] = <<{}, {1}, {1}, {2}>>
    /\ [k \in 1..Len(notified) |-> notified[k].after] = <<0, 0, 1, 2>>
    /\ worker.values = <<Output(0, <<Output(1, <<>>), Output(2, <<>>),
                                     Output(3, <<>>)>>)>>

\* A join of two Tasks was joined to a Task before it and has run.
C24_WitnessNested ==
    /\ worker.phase = "returned"
    /\ worker.task.function.kind = "join"
    /\ worker.task.function.inner[2].kind = "join"
    /\ executed = <<1, 2, 3>>
    /\ worker.values = <<Output(0, <<Output(1, <<>>),
                                     Output(0, <<Output(2, <<>>),
                                                 Output(3, <<>>)>>)>>)>>

(***************************************************************************)
(* The radio button drawn by the Renderer. The caller draws radio buttons  *)
(* with arguments of its choice; the batch is emptied when it is flushed.  *)
(***************************************************************************)
\* The button with its label reaches further right than the button.
LabelledRects == {Rectangle(0, 0, 4, 2), Rectangle(5, 5, 4, 2)}

\* Over the first button, over the second, and over the label of the first.
RadioCursorPositions == CursorPositions \cup {Point_new(3, 1)}

InitRadio ==
    /\ root = Row_new
    /\ pushed = <<>>
    /\ call = NoCall
    /\ messages = <<>>
    /\ node = NoNode
    /\ cursor = "Default"
    /\ drawn = <<>>
    /\ panicked = FALSE
    /\ hasher = <<>>
    /\ last_hasher = NoDigest
    /\ delta = <<>>
    /\ pending = <<>>
    /\ armed = FALSE
    /\ clicks = 0
    /\ Idle

\* radio::Renderer::draw; `before` is history: the batch the call found.
RadioDraw ==
    /\ Len(sprites) + 2 <= MaxSprites
    /\ \E is_selected \in BOOLEAN, bounds \in Rects,
          bounds_with_label \in LabelledRects,
          cursor_position \in RadioCursorPositions :
            LET returned == Radio_draw(sprites, is_selected, bounds,
                                       bounds_with_label, cursor_position)
            IN  /\ sprites' = returned.sprites
                /\ radio' = [op |-> "draw",
                             is_selected |-> is_selected,
                             bounds |-> bounds,
                             bounds_with_label |-> bounds_with_label,
                             cursor_position |-> cursor_position,
                             before |-> sprites,
                             cursor |-> returned.cursor]
    /\ UNCHANGED <<uiVars, layoutVars, loadVars, gfxVars>>

\* The Renderer flushes its batch at the end of the frame.
Flush ==
    /\ sprites /= <<>>
    /\ sprites' = <<>>
    /\ radio' = NoRadio
    /\ UNCHANGED <<uiVars, layoutVars, loadVars, gfxVars>>

NextRadio ==
    \/ RadioDraw
    \/ Flush

SpecRadio == InitRadio /\ [][NextRadio]_vars

\* C21: the draw of a radio button returns Pointer exactly when the cursor
\* position is inside bounds_with_label and Default otherwise, whether the
\* button is selected or not, and it adds to the sprites that were in the
\* batch one sprite when the button is not selected and two when it is.
C21_RadioDraw ==
    radio.op = "draw" =>
        /\ radio.cursor = "Pointer" <=>
                contains(radio.bounds_with_label, radio.cursor_position)
        /\ radio.cursor = "Default" <=>
                ~contains(radio.bounds_with_label, radio.cursor_position)
        /\ IsPrefix(radio.before, sprites)
        /\ Len(sprites) - Len(radio.before) =
                IF radio.is_selected THEN 2 ELSE 1

\* A selected button was drawn with the cursor over its label and outside
\* the button itself, after a button that is not selected: Pointer was
\* returned and the circle and the dot were added.
C21_Witness ==
    /\ radio.op = "draw"
    /\ radio.is_selected
    /\ contains(radio.bounds_with_label, radio.cursor_position)
    /\ ~contains(radio.bounds, radio.cursor_position)
    /\ radio.cursor = "Pointer"
    /\ Len(radio.before) = 1
    /\ Len(sprites) = 3

\* A button that is not selected was drawn with the cursor elsewhere:
\* Default was returned and the circle alone was added, not lit up.
C21_WitnessDefault ==
    /\ radio.op = "draw"
    /\ ~radio.is_selected
    /\ ~contains(radio.bounds_with_label, radio.cursor_position)
    /\ radio.cursor = "Default"
    /\ sprites = <<Sprite(SPRITE, Point_new(radio.bounds.x, radio.bounds.y))>>

====
